---- MODULE Spec2Model ----
(***************************************************************************)
(* LK Digital Display (Linux): the HID device lifecycle and packet layout   *)
(* of hid_device.py, the update orchestrator of lk_display.py and the      *)
(* sensor readers of hardware_monitor.py, as state machines.               *)
(*                                                                         *)
(*   SpecApi      the public HidDevice operations, called in any order,    *)
(*                against hidraw nodes that appear and disappear           *)
(*   SpecApiMode  SpecApi plus set_display_mode                            *)
(*   Spec         LKDisplay.run: start, warm-up, update cycles, shutdown,  *)
(*                with termination signals delivered between statements    *)
(*   SpecSetters  the snapshot setters of HidDevice on integer arguments   *)
(*   SpecPacket   the two packet builders of HidDevice on snapshots the    *)
(*                setters produced                                         *)
(*   SpecTracker  CpuUsageTracker: construction, then get_usage on         *)
(*                successive reads of /proc/stat                           *)
(*   SpecMonitor  HardwareMonitor: the vendor probe of the constructor,    *)
(*                then get_cpu_data and get_gpu_data on sources that are   *)
(*                present, absent or unreadable                            *)
(***************************************************************************)
EXTENDS Integers, Sequences, FiniteSets, TLC

\* ------------------------------------------------------------------ bounds

\* /dev/hidraw1 .. /dev/hidraw<NumPaths>
NumPaths == 3
\* descriptors the process may hold open at once (os.open fails beyond it)
MaxFd == 2
\* saturation of the per-descriptor history counters
CountCap == 2

Paths == 1..NumPaths
Fds == 1..MaxFd

\* ---------------------------------------------------------- program constants

REPORT_SIZE == 65
ENODEV == 19
WARMUP_SAMPLES == 3

\* (vendor id, product id) of the table: (0x1B80, 0xB538), (0x0145, 0x1005)
SUPPORTED_DEVICES == << <<7040, 46392>>, <<325, 4101>> >>

\* --------------------------------------------------------------- environment

\* The device behind each node, as HIDIOCGRAWINFO reports it: node 1 is a
\* GAMDIAS ATLAS, node 2 a HWCX controller, node 3 some other HID device,
\* node 4 a device with the GAMDIAS vendor id and another product id.
NodeId(p) ==
    CASE p % 4 = 1 -> <<7040, 46392>>
      [] p % 4 = 2 -> <<325, 4101>>
      [] p % 4 = 3 -> <<1133, 49271>>
      [] OTHER     -> <<7040, 4101>>

NoFd == 0
NoPath == 0
\* a slot of the process's descriptor table: the node it was opened on, and
\* whether the device it was opened on is still attached
ClosedFd == [path |-> NoPath, live |-> FALSE]
NoInfo == [path |-> NoPath, vendor_id |-> 0, product_id |-> 0, is_gamdias |-> FALSE]

VARIABLES
    nodes,                \* the hidraw nodes that exist in /dev
    fdtab,                \* the process's descriptor table
    devices,              \* HidDevice._devices: path -> fd (NoFd: no entry)
    device_info,          \* HidDevice._device_info: path -> DeviceInfo
    initialized_devices,  \* HidDevice._initialized_devices
    sensor_data,          \* HidDevice._sensor_data
    pc,                   \* LKDisplay.run: the statement about to execute
    running,              \* LKDisplay.running
    handlers,             \* the signal handlers of start() are installed
    warm,                 \* warm-up samples taken
    retcode,              \* what run returned (-1: has not returned)
    op,                   \* the operation that produced this state
    ret,                  \* what that operation returned and reported to the log
    wlog,                 \* the writes of the last send_data, per path, in order
    inits,                \* per descriptor: init sequences written since its open
    served,               \* per descriptor: send_data calls that reached it
    signalled,            \* a termination signal reached _signal_handler
    cycle,                \* what the update cycle in progress has done
    everCycle,            \* an update cycle has started
    everTransmit,         \* send_data has been called by the orchestrator
    everDisconnect,       \* send_data has removed a disconnected device
    startCount,           \* what open_devices returned in start() (-1: not yet)
    packet,               \* the packet the last builder call returned
    built,                \* which builder that was ("none": no call yet)
    usage_in,             \* the usage arguments the setters were last called with
    _last_idle,           \* CpuUsageTracker._last_idle
    _last_total,          \* CpuUsageTracker._last_total
    _initialized,         \* CpuUsageTracker._initialized
    usage_out,            \* what the last get_usage call returned
    stat,                 \* what the last read of /proc/stat gave
    calls,                \* get_usage calls since the tracker was constructed
    good,                 \* the counters of the last read that succeeded
    _gpu_vendor,          \* HardwareMonitor._gpu_vendor ("none": None)
    probe,                \* what the probes of the constructor found
    src,                  \* what the sources of the last reader call held
    reading               \* the reading that call returned

envVars == <<nodes, fdtab>>
hidVars == <<devices, device_info, initialized_devices>>
runVars == <<pc, running, handlers, warm, retcode>>
obsVars == <<op, ret, wlog, inits, served>>
runObsVars == <<signalled, cycle, everCycle, everTransmit, everDisconnect, startCount>>
pktVars == <<packet, built, usage_in>>
cpuVars == <<_last_idle, _last_total, _initialized, usage_out, stat, calls, good>>
cpuRest == <<_last_idle, _last_total, _initialized, usage_out, stat, good>>
monVars == <<_gpu_vendor, probe, src, reading>>
unitVars == <<pktVars, cpuVars, monVars>>
vars == <<nodes, fdtab, devices, device_info, initialized_devices, sensor_data,
          pc, running, handlers, warm, retcode, op, ret, wlog, inits, served,
          signalled, cycle, everCycle, everTransmit, everDisconnect, startCount,
          packet, built, usage_in,
          _last_idle, _last_total, _initialized, usage_out, stat, calls, good,
          _gpu_vendor, probe, src, reading>>

\* ------------------------------------------------------------------ helpers

min(a, b) == IF a <= b THEN a ELSE b
max(a, b) == IF a >= b THEN a ELSE b

\* the elements of a set of paths in ascending order: sorted(glob("hidraw*"))
RECURSIVE SortedPaths(_)
SortedPaths(S) ==
    IF S = {} THEN <<>>
    ELSE LET m == CHOOSE x \in S : \A y \in S : x <= y
         IN <<m>> \o SortedPaths(S \ {m})

\* os.open: the lowest descriptor number that is free, NoFd when none is
\* (the call then raises OSError, EMFILE)
LowestFree(tab) ==
    IF \E f \in Fds : tab[f].path = NoPath
    THEN CHOOSE f \in Fds : tab[f].path = NoPath
                            /\ \A g \in Fds : tab[g].path = NoPath => f <= g
    ELSE NoFd

OpenFdSet(tab) == {f \in Fds : tab[f].path # NoPath}

\* ---------------------------------------------------------------- SensorData

DefaultSensorData ==
    [cpu_temp |-> 0, cpu_usage |-> 0, cpu_freq |-> 0, cpu_fan_rpm |-> 0,
     cpu_power |-> 0,
     gpu_temp |-> 0, gpu_usage |-> 0, gpu_freq |-> 0, gpu_fan_rpm |-> 0,
     gpu_power |-> 0,
     mem_usage |-> 0, mem_temp |-> 0, disk_usage |-> 0, disk_temp |-> 0,
     net_upload |-> 0, net_download |-> 0, display_mode |-> 0]

\* mutant: set_cpu_data truncates its arguments to their low byte or word
set_cpu_data_wrap(sd, temp, usage, freq, fan_rpm, power) ==
    [sd EXCEPT !.cpu_temp = temp % 256,
               !.cpu_usage = usage % 256,
               !.cpu_freq = freq % 65536,
               !.cpu_fan_rpm = fan_rpm % 65536,
               !.cpu_power = power % 65536]

set_cpu_data(sd, temp, usage, freq, fan_rpm, power) ==
    [sd EXCEPT !.cpu_temp = min(255, max(0, temp)),
               !.cpu_usage = min(100, max(0, usage)),
               !.cpu_freq = min(65535, max(0, freq)),
               !.cpu_fan_rpm = min(65535, max(0, fan_rpm)),
               !.cpu_power = min(65535, max(0, power))]

set_gpu_data(sd, temp, usage, freq, fan_rpm, power) ==
    [sd EXCEPT !.gpu_temp = min(255, max(0, temp)),
               !.gpu_usage = min(100, max(0, usage)),
               !.gpu_freq = min(65535, max(0, freq)),
               !.gpu_fan_rpm = min(65535, max(0, fan_rpm)),
               !.gpu_power = min(65535, max(0, power))]

set_memory_data(sd, usage, temp) ==
    [sd EXCEPT !.mem_usage = min(100, max(0, usage)),
               !.mem_temp = min(255, max(0, temp))]

set_disk_data(sd, usage, temp) ==
    [sd EXCEPT !.disk_usage = min(100, max(0, usage)),
               !.disk_temp = min(255, max(0, temp))]

set_network_speed(sd, upload, download) ==
    [sd EXCEPT !.net_upload = upload, !.net_download = download]

set_display_mode(sd, mode) ==
    [sd EXCEPT !.display_mode = mode]

\* packet[49] = data.display_mode: a bytearray item outside 0..255 raises
\* ValueError; every other item the HWCX builder stores is masked with 0xFF
\* or comes from a setter that clamps it to a byte
HwcxBuildRaises(sd) == sd.display_mode \notin 0..255

\* ------------------------------------------------------------ packet encoder

Offsets == 0..(REPORT_SIZE - 1)

\* bytearray(REPORT_SIZE)
ZeroBuffer == [i \in Offsets |-> 0]

\* (x >> n) & 0xFF, with unit = 2^n
Byte(x, unit) == (x \div unit) % 256

\* what datetime.now() returns at a builder call
NowValues ==
    {[hour |-> 9, minute |-> 5, second |-> 7,
      year |-> 2024, month |-> 2, day |-> 29, weekday |-> 3],
     [hour |-> 23, minute |-> 59, second |-> 58,
      year |-> 2025, month |-> 12, day |-> 31, weekday |-> 2]}

\* the buffer after the item assignments `assigned`; the other items keep the
\* zero they were allocated with
Filled(assigned) == assigned @@ ZeroBuffer

\* mutant: CPU and GPU frequency in little-endian order
_build_gamdias_packet_le(sd, now) ==
    Filled(
        (0 :> 176) @@ (1 :> 1) @@ (2 :> 0)
     @@ (3 :> sd.gpu_temp)
     @@ (4 :> Byte(sd.cpu_temp, 1)) @@ (5 :> Byte(sd.cpu_temp, 256))
     @@ (6 :> sd.cpu_usage)
     @@ (7 :> Byte(sd.cpu_fan_rpm, 1)) @@ (8 :> Byte(sd.cpu_fan_rpm, 256))
     @@ (9 :> Byte(sd.gpu_fan_rpm, 1)) @@ (10 :> Byte(sd.gpu_fan_rpm, 256))
     @@ (11 :> Byte(sd.gpu_power, 1)) @@ (12 :> Byte(sd.gpu_power, 256))
     @@ (13 :> 0)
     @@ (14 :> Byte(sd.cpu_freq, 1)) @@ (15 :> Byte(sd.cpu_freq, 256))
     @@ (16 :> sd.gpu_usage)
     @@ (17 :> Byte(sd.gpu_freq, 1)) @@ (18 :> Byte(sd.gpu_freq, 256))
     @@ (19 :> now.hour) @@ (20 :> now.minute) @@ (21 :> now.second)
     @@ (22 :> sd.mem_usage) @@ (23 :> sd.disk_usage)
     @@ (24 :> Byte(sd.cpu_power, 1)) @@ (25 :> Byte(sd.cpu_power, 256)))

\* _build_gamdias_packet: the items of the buffer, before bytes(packet)
_build_gamdias_packet(sd, now) ==
    Filled(
        (0 :> 176) @@ (1 :> 1) @@ (2 :> 0)
     @@ (3 :> sd.gpu_temp)
     @@ (4 :> Byte(sd.cpu_temp, 1)) @@ (5 :> Byte(sd.cpu_temp, 256))
     @@ (6 :> sd.cpu_usage)
     @@ (7 :> Byte(sd.cpu_fan_rpm, 1)) @@ (8 :> Byte(sd.cpu_fan_rpm, 256))
     @@ (9 :> Byte(sd.gpu_fan_rpm, 1)) @@ (10 :> Byte(sd.gpu_fan_rpm, 256))
     @@ (11 :> Byte(sd.gpu_power, 1)) @@ (12 :> Byte(sd.gpu_power, 256))
     @@ (13 :> 0)
     @@ (14 :> Byte(sd.cpu_freq, 256)) @@ (15 :> Byte(sd.cpu_freq, 1))
     @@ (16 :> sd.gpu_usage)
     @@ (17 :> Byte(sd.gpu_freq, 256)) @@ (18 :> Byte(sd.gpu_freq, 1))
     @@ (19 :> now.hour) @@ (20 :> now.minute) @@ (21 :> now.second)
     @@ (22 :> sd.mem_usage) @@ (23 :> sd.disk_usage)
     @@ (24 :> Byte(sd.cpu_power, 1)) @@ (25 :> Byte(sd.cpu_power, 256)))

\* the item assignments of _build_hwcx_packet
HwcxAssigned(sd, now) ==
        (0 :> 0) @@ (1 :> 2)
     @@ (2 :> sd.cpu_temp) @@ (3 :> sd.gpu_temp)
     @@ (4 :> now.hour) @@ (5 :> now.minute) @@ (6 :> now.second)
     @@ (7 :> 0)
     @@ (8 :> Byte(now.year, 256)) @@ (9 :> Byte(now.year, 1))
     @@ (10 :> now.month) @@ (11 :> now.day) @@ (12 :> now.weekday)
     @@ (13 :> sd.cpu_usage)
     @@ (14 :> Byte(sd.cpu_freq, 256)) @@ (15 :> Byte(sd.cpu_freq, 1))
     @@ (16 :> sd.gpu_usage)
     @@ (17 :> Byte(sd.gpu_freq, 256)) @@ (18 :> Byte(sd.gpu_freq, 1))
     @@ (19 :> sd.mem_usage) @@ (20 :> sd.mem_temp)
     @@ (21 :> 0) @@ (22 :> 0)
     @@ (23 :> sd.disk_usage) @@ (24 :> sd.disk_temp)
     @@ (25 :> Byte(sd.cpu_fan_rpm, 256)) @@ (26 :> Byte(sd.cpu_fan_rpm, 1))
     @@ (27 :> 0) @@ (28 :> 0)
     @@ (29 :> Byte(sd.cpu_power, 256)) @@ (30 :> Byte(sd.cpu_power, 1))
     @@ (31 :> Byte(sd.gpu_fan_rpm, 256)) @@ (32 :> Byte(sd.gpu_fan_rpm, 1))
     @@ (33 :> 0) @@ (34 :> 0)
     @@ (35 :> Byte(sd.gpu_power, 256)) @@ (36 :> Byte(sd.gpu_power, 1))
     @@ (41 :> Byte(sd.net_upload, 16777216)) @@ (42 :> Byte(sd.net_upload, 65536))
     @@ (43 :> Byte(sd.net_upload, 256)) @@ (44 :> Byte(sd.net_upload, 1))
     @@ (45 :> Byte(sd.net_download, 16777216)) @@ (46 :> Byte(sd.net_download, 65536))
     @@ (47 :> Byte(sd.net_download, 256)) @@ (48 :> Byte(sd.net_download, 1))
     @@ (49 :> sd.display_mode)

\* mutant: offset 7 carries the low byte of the CPU fan speed
_build_hwcx_packet_extra(sd, now) ==
    Filled((7 :> Byte(sd.cpu_fan_rpm, 1)) @@ HwcxAssigned(sd, now))

\* _build_hwcx_packet: the items of the buffer, before bytes(packet)
_build_hwcx_packet(sd, now) == Filled(HwcxAssigned(sd, now))

\* an item assignment of a bytearray raises ValueError unless the value is
\* in range(256)
PacketRaises(pk) == \E i \in Offsets : pk[i] \notin 0..255

\* ----------------------------------------------------------------- HidDevice

\* the object's dictionaries together with the descriptor table they refer to
HidState ==
    [devices |-> devices, device_info |-> device_info,
     initialized_devices |-> initialized_devices, fdtab |-> fdtab]

\* _get_device_info: None (NoInfo) when the node cannot be opened (no
\* permission, no free descriptor) or queried
_get_device_info(tab, p, unreadable) ==
    IF p \in unreadable \/ LowestFree(tab) = NoFd THEN NoInfo
    ELSE [path |-> p,
          vendor_id |-> NodeId(p)[1],
          product_id |-> NodeId(p)[2],
          is_gamdias |-> (NodeId(p)[1] = 7040 /\ NodeId(p)[2] = 46392)]

\* mutant: every node whose info could be read is accepted
IsSupported_any(info) == info.path # NoPath

\* scan_devices, lines 131-136: the pair is in the supported table
IsSupported(info) ==
    \E i \in 1..Len(SUPPORTED_DEVICES) :
        /\ info.vendor_id = SUPPORTED_DEVICES[i][1]
        /\ info.product_id = SUPPORTED_DEVICES[i][2]

\* scan_devices: the DeviceInfo of every supported node, in sorted path order
RECURSIVE ScanLoop(_, _, _, _)
ScanLoop(tab, paths, i, unreadable) ==
    IF i > Len(paths) THEN <<>>
    ELSE LET info == _get_device_info(tab, paths[i], unreadable)
         IN (IF info # NoInfo /\ IsSupported(info) THEN <<info>> ELSE <<>>)
            \o ScanLoop(tab, paths, i + 1, unreadable)

scan_devices(tab, present, unreadable) ==
    ScanLoop(tab, SortedPaths(present), 1, unreadable)

\* the body of the loop of open_devices for one scanned device; os.open
\* raises for the paths of unopenable and when no descriptor is free, and the
\* except clause reports the path to the log
OpenOne(h, info, unopenable) ==
    LET fd == LowestFree(h.fdtab)
    IN IF info.path \in unopenable \/ fd = NoFd
       THEN [h EXCEPT !.failed = @ \cup {info.path}]
       ELSE [h EXCEPT !.fdtab[fd] = [path |-> info.path, live |-> TRUE],
                      !.devices[info.path] = fd,
                      !.device_info[info.path] = info,
                      !.opened = @ + 1,
                      !.newfds = @ \cup {fd}]

\* mutant: the pass ends at the first device that cannot be opened
RECURSIVE OpenLoop_abort(_, _, _, _)
OpenLoop_abort(h, found, i, unopenable) ==
    IF i > Len(found) THEN h
    ELSE LET n == OpenOne(h, found[i], unopenable)
         IN IF n.failed # h.failed THEN n
            ELSE OpenLoop_abort(n, found, i + 1, unopenable)

RECURSIVE OpenLoop(_, _, _, _)
OpenLoop(h, found, i, unopenable) ==
    IF i > Len(found) THEN h
    ELSE OpenLoop(OpenOne(h, found[i], unopenable), found, i + 1, unopenable)

\* open_devices: the state after it, with .opened the count it returns,
\* .newfds the descriptors it opened, .found the paths scan_devices returned
\* to it and .failed the paths it reported as not opened
open_devices(h, present, unreadable, unopenable) ==
    LET found == scan_devices(h.fdtab, present, unreadable)
    IN OpenLoop([devices |-> h.devices, device_info |-> h.device_info,
                 initialized_devices |-> h.initialized_devices, fdtab |-> h.fdtab,
                 opened |-> 0, newfds |-> {}, failed |-> {},
                 found |-> {found[i].path : i \in 1..Len(found)}],
                found, 1, unopenable)

\* mutant: the descriptors are forgotten and never closed
CloseFds_none(tab, devs, S) == tab

\* os.close of every descriptor held in a set of paths of the active set
CloseFds(tab, devs, S) ==
    [f \in Fds |-> IF \E p \in S : devs[p] = f THEN ClosedFd ELSE tab[f]]

close_devices(h) ==
    [devices |-> [p \in Paths |-> NoFd],
     device_info |-> [p \in Paths |-> NoInfo],
     initialized_devices |-> {},
     fdtab |-> CloseFds(h.fdtab, h.devices, {p \in Paths : h.devices[p] # NoFd})]

get_online_device_count(devs) == Cardinality({p \in Paths : devs[p] # NoFd})

\* os.write on a descriptor: the number of bytes written, or -errno when it
\* raises OSError. Errno 19 once the device is gone, otherwise what the kernel
\* answers this time
WriteResult(tab, fd, answer) == IF tab[fd].live THEN answer ELSE -ENODEV

\* init_commands: B0 01 00, 00 38 B5 01 00, 00 38 B5 01 01
InitCommands == << <<176, 1, 0>>, <<0, 56, 181, 1, 0>>, <<0, 56, 181, 1, 1>> >>

\* packet = bytearray(REPORT_SIZE); packet[:len(cmd)] = cmd
InitReport(i) ==
    Filled([k \in 0..(Len(InitCommands[i]) - 1) |-> InitCommands[i][k + 1]])

\* mutant: the sequence ends at the first write that raises
_send_gamdias_init_abort(tab, fd, initfail) ==
    LET bad == {i \in 1..3 : WriteResult(tab, fd, IF i \in initfail THEN -5 ELSE REPORT_SIZE) < 0}
        last == IF bad = {} THEN 3 ELSE CHOOSE i \in bad : \A j \in bad : i <= j
    IN [i \in 1..last |->
          [pkt |-> <<"init", i>>, fd |-> fd,
           res |-> WriteResult(tab, fd, IF i \in initfail THEN -5 ELSE REPORT_SIZE)]]

\* _send_gamdias_init: three reports, each written whatever became of the
\* one before; initfail are the positions whose write raises on a live device
_send_gamdias_init(tab, fd, initfail) ==
    [i \in 1..3 |->
        [pkt |-> <<"init", i>>, fd |-> fd,
         res |-> WriteResult(tab, fd, IF i \in initfail THEN -5 ELSE REPORT_SIZE)]]

\* the init branch of send_data: the writes it makes for a path
InitWrites(h, p, initfails) ==
    IF p \notin h.initialized_devices /\ h.device_info[p].is_gamdias
    THEN _send_gamdias_init(h.fdtab, h.devices[p], initfails[p])
    ELSE <<>>

\* mutant: the path is never recorded as initialized
MarkInitialized_never(inited, p) == inited

\* the initialized set after the init branch of send_data for a path
MarkInitialized(inited, p) == inited \cup {p}

\* the data write of send_data for a path: no write when building the packet
\* raised, else one write of the family's packet
DataWrites(h, sd, p, answers) ==
    IF ~h.device_info[p].is_gamdias /\ HwcxBuildRaises(sd) THEN <<>>
    ELSE << [pkt |-> <<IF h.device_info[p].is_gamdias THEN "gamdias" ELSE "hwcx", 0>>,
             fd |-> h.devices[p],
             res |-> WriteResult(h.fdtab, h.devices[p], answers[p])] >>

\* mutant: every OSError of the data write marks the path for removal
ToRemove_anyError(writes) ==
    writes # <<>> /\ writes[Len(writes)].res < 0

\* the except clause of send_data: only errno 19 marks the path for removal
ToRemove(writes) ==
    writes # <<>> /\ writes[Len(writes)].res = -ENODEV

\* mutant: any number of bytes written counts as success
WroteFull_anyLength(writes) ==
    writes # <<>> /\ writes[Len(writes)].res > 0

\* written == len(packet)
WroteFull(writes) ==
    writes # <<>> /\ writes[Len(writes)].res = REPORT_SIZE

\* one iteration of the loop of send_data
SendOne(h, sd, p, answers, initfails) ==
    IF h.device_info[p] = NoInfo THEN h
    ELSE LET iw == InitWrites(h, p, initfails)
             dw == DataWrites(h, sd, p, answers)
         IN [h EXCEPT !.initialized_devices = MarkInitialized(@, p),
                      !.wlog[p] = iw \o dw,
                      !.success = @ \/ WroteFull(dw),
                      !.to_remove = IF ToRemove(dw) THEN @ \cup {p} ELSE @]

\* mutant: the loop ends at the first device whose packet could not be built
\* or whose write raised
RECURSIVE SendLoop_abort(_, _, _, _, _, _)
SendLoop_abort(h, sd, paths, i, answers, initfails) ==
    IF i > Len(paths) THEN h
    ELSE LET n == SendOne(h, sd, paths[i], answers, initfails)
             w == n.wlog[paths[i]]
         IN IF w = <<>> \/ w[Len(w)].res < 0 THEN n
            ELSE SendLoop_abort(n, sd, paths, i + 1, answers, initfails)

RECURSIVE SendLoop(_, _, _, _, _, _)
SendLoop(h, sd, paths, i, answers, initfails) ==
    IF i > Len(paths) THEN h
    ELSE SendLoop(SendOne(h, sd, paths[i], answers, initfails),
                  sd, paths, i + 1, answers, initfails)

\* mutant: the clean-up forgets the path and keeps it marked initialized
RemoveDisconnected_keepInit(h) ==
    [h EXCEPT !.fdtab = CloseFds(h.fdtab, h.devices, h.to_remove),
              !.devices = [p \in Paths |-> IF p \in h.to_remove THEN NoFd ELSE @[p]],
              !.device_info = [p \in Paths |-> IF p \in h.to_remove THEN NoInfo ELSE @[p]]]

\* the clean-up of send_data: close and forget the disconnected paths
RemoveDisconnected(h) ==
    [h EXCEPT !.fdtab = CloseFds(h.fdtab, h.devices, h.to_remove),
              !.devices = [p \in Paths |-> IF p \in h.to_remove THEN NoFd ELSE @[p]],
              !.device_info = [p \in Paths |-> IF p \in h.to_remove THEN NoInfo ELSE @[p]],
              !.initialized_devices = @ \ h.to_remove]

\* send_data: the state after it, with .success what it returns and .wlog
\* the writes it made
send_data(h, sd, answers, initfails) ==
    LET h0 == [devices |-> h.devices, device_info |-> h.device_info,
               initialized_devices |-> h.initialized_devices, fdtab |-> h.fdtab,
               success |-> FALSE, to_remove |-> {},
               wlog |-> [p \in Paths |-> <<>>]]
        active == {p \in Paths : h.devices[p] # NoFd}
    IN IF active = {} THEN h0
       ELSE RemoveDisconnected(
                SendLoop(h0, sd, SortedPaths(active), 1, answers, initfails))

\* ------------------------------------------------- inputs of the operations

\* what os.write answers on a device that is attached: the whole report, a
\* part of it, or OSError with errno 5 (EIO)
WriteAnswers == {REPORT_SIZE, REPORT_SIZE - 1, -5}
\* which of the three init writes raise on a device that is attached
InitFailChoices == {{}, {2}, {1, 2, 3}}

ActivePaths(devs) == {p \in Paths : devs[p] # NoFd}
NeedInit(h) ==
    {p \in ActivePaths(h.devices) :
        p \notin h.initialized_devices /\ h.device_info[p].is_gamdias}

\* an update cycle that has done nothing yet; count is the number of devices
\* the cycle found after its check (-1: not checked yet), gpu_valid the
\* is_valid of the GPU reading it took, gpu_before the GPU temperature the
\* snapshot held when it took it and cpu_call the number of the get_usage call
\* its CPU reading came from (0: none yet)
NoCycle ==
    [discovered |-> FALSE, count |-> -1, slept |-> FALSE,
     reads |-> {}, updates |-> {}, transmits |-> 0,
     gpu_valid |-> TRUE, gpu_before |-> 0, cpu_call |-> 0]
NoRet == [count |-> 0, ok |-> FALSE, found |-> {}, failed |-> {}]
EmptyLog == [p \in Paths |-> <<>>]

\* --------------------------------------------------------------------- Init

\* no usage argument passed yet
NoUsageIn == [cpu |-> 0, gpu |-> 0, mem |-> 0, disk |-> 0]

\* a read of /proc/stat that failed
NoStat == [ok |-> FALSE, idle |-> 0, total |-> 0]

\* a usage percentage as the fraction num/den; 0.0
ZeroUsage == [num |-> 0, den |-> 1]

\* CpuUsageTracker.__init__, lines 52-54: the fields before _init_values
TrackerFresh ==
    /\ _last_idle = 0
    /\ _last_total = 0
    /\ _initialized = FALSE
    /\ usage_out = ZeroUsage
    /\ stat = NoStat
    /\ calls = 0
    /\ good = NoStat

\* A reading (CpuData, GpuData): temperature in thousandths of a degree,
\* frequency in kHz and power in microwatts, so that every conversion of a
\* reader is exact; CpuData() and GpuData() are the reading of defaults
NoReading ==
    [temperature |-> 0, usage |-> 0, frequency |-> 0, memory_usage |-> 0,
     fan_rpm |-> 0, power |-> 0, is_valid |-> FALSE]

NoProbe == [tool |-> "missing", cards |-> <<>>]
NoSrc == [reader |-> "idle", tool |-> "missing", in |-> <<>>]

\* no HardwareMonitor constructed
MonitorFresh ==
    /\ _gpu_vendor = "none"
    /\ probe = NoProbe
    /\ src = NoSrc
    /\ reading = NoReading

InitCommon ==
    /\ nodes \in SUBSET Paths
    /\ fdtab = [f \in Fds |-> ClosedFd]
    /\ devices = [p \in Paths |-> NoFd]
    /\ device_info = [p \in Paths |-> NoInfo]
    /\ initialized_devices = {}
    /\ sensor_data = DefaultSensorData
    /\ running = FALSE
    /\ handlers = FALSE
    /\ warm = 0
    /\ retcode = -1
    /\ op = "init"
    /\ ret = NoRet
    /\ wlog = EmptyLog
    /\ inits = [f \in Fds |-> 0]
    /\ served = [f \in Fds |-> 0]
    /\ signalled = FALSE
    /\ cycle = NoCycle
    /\ everCycle = FALSE
    /\ everTransmit = FALSE
    /\ everDisconnect = FALSE
    /\ startCount = -1
    /\ packet = ZeroBuffer
    /\ built = "none"
    /\ usage_in = NoUsageIn

\* ------------------------------------------------- the effect of each call

DoScan(unreadable) ==
    /\ op' = "scan_devices"
    /\ ret' = [NoRet EXCEPT !.count = Len(scan_devices(fdtab, nodes, unreadable))]
    /\ wlog' = EmptyLog
    /\ UNCHANGED <<fdtab, hidVars>>

DoOpen(unreadable, unopenable) ==
    LET r == open_devices(HidState, nodes, unreadable, unopenable)
    IN /\ devices' = r.devices
       /\ device_info' = r.device_info
       /\ initialized_devices' = r.initialized_devices
       /\ fdtab' = r.fdtab
       /\ op' = "open_devices"
       /\ ret' = [NoRet EXCEPT !.count = r.opened,
                                !.found = r.found,
                                !.failed = r.failed]
       /\ wlog' = EmptyLog

DoClose ==
    LET r == close_devices(HidState)
    IN /\ devices' = r.devices
       /\ device_info' = r.device_info
       /\ initialized_devices' = r.initialized_devices
       /\ fdtab' = r.fdtab
       /\ op' = "close_devices"
       /\ ret' = NoRet
       /\ wlog' = EmptyLog

HasInit(writes) == writes # <<>> /\ writes[1].pkt[1] = "init"

DoSend(answers, initfails) ==
    LET r == send_data(HidState, sensor_data, answers, initfails)
    IN /\ devices' = r.devices
       /\ device_info' = r.device_info
       /\ initialized_devices' = r.initialized_devices
       /\ fdtab' = r.fdtab
       /\ op' = "send_data"
       /\ ret' = [NoRet EXCEPT !.ok = r.success]
       /\ wlog' = r.wlog

\* ------------------------------------------------------------- environment

Plug(p) ==
    /\ p \notin nodes
    /\ nodes' = nodes \cup {p}
    /\ UNCHANGED fdtab

Unplug(p) ==
    /\ p \in nodes
    /\ nodes' = nodes \ {p}
    /\ fdtab' = [f \in Fds |->
                    IF fdtab[f].path = p THEN [fdtab[f] EXCEPT !.live = FALSE]
                    ELSE fdtab[f]]

\* ----------------------------------------------------------------- SpecApi

ApiEnvStep(p) ==
    /\ (Plug(p) \/ Unplug(p))
    /\ op' = "env" /\ ret' = NoRet /\ wlog' = EmptyLog
    /\ UNCHANGED <<hidVars, sensor_data, runVars, inits, served, runObsVars>>
    /\ UNCHANGED unitVars

\* the nodes a scan would report when every node can be queried
Scannable == {p \in nodes : IsSupported(_get_device_info(fdtab, p, {}))}

ApiScan ==
    /\ \E unreadable \in SUBSET Scannable : DoScan(unreadable)
    /\ UNCHANGED <<nodes, sensor_data, runVars, inits, served, runObsVars>>
    /\ UNCHANGED unitVars

ApiOpen ==
    /\ \E unreadable \in SUBSET Scannable :
          \E unopenable \in SUBSET (Scannable \ unreadable) :
              DoOpen(unreadable, unopenable)
    /\ UNCHANGED <<nodes, sensor_data, runVars, inits, served, runObsVars>>
    /\ UNCHANGED unitVars

ApiSend ==
    /\ \E answers \in [ActivePaths(devices) -> WriteAnswers],
          initfails \in [NeedInit(HidState) -> InitFailChoices] :
          DoSend(answers, initfails)
    /\ UNCHANGED <<nodes, sensor_data, runVars, inits, served, runObsVars>>
    /\ UNCHANGED unitVars

ApiClose ==
    /\ DoClose
    /\ UNCHANGED <<nodes, sensor_data, runVars, inits, served, runObsVars>>
    /\ UNCHANGED unitVars

InitApi == InitCommon /\ TrackerFresh /\ MonitorFresh /\ pc = "api"

NextApi ==
    \/ \E p \in Paths : ApiEnvStep(p)
    \/ ApiScan
    \/ ApiOpen
    \/ ApiSend
    \/ ApiClose

SpecApi == InitApi /\ [][NextApi]_vars

\* ------------------------------------------------------------- SpecApiMode

\* the arguments set_display_mode is called with
ModeValues == {0, 256}

ApiSetDisplayMode ==
    /\ \E mode \in ModeValues : sensor_data' = set_display_mode(sensor_data, mode)
    /\ op' = "set_display_mode" /\ ret' = NoRet /\ wlog' = EmptyLog
    /\ UNCHANGED <<envVars, hidVars, runVars, inits, served, runObsVars>>
    /\ UNCHANGED unitVars

NextApiMode == NextApi \/ ApiSetDisplayMode

SpecApiMode == InitApi /\ [][NextApiMode]_vars

\* ------------------------------------------------------------- SpecSetters

\* the integers the setters are called with: below every range, inside every
\* range, above the percent range, above the byte range, above the 16-bit
\* range. Each call passes one of them for all of its arguments: every field
\* is a function of its own argument alone. (Values above the 32-bit range of
\* the network fields are beyond the integers of the model checker; the
\* negative value is the out-of-range input of those fields.)
ArgValues == {-10, 0, 42, 150, 256, 70000}

restVars == <<envVars, hidVars, runVars, obsVars, runObsVars, unitVars>>

SetCpu ==
    /\ \E v \in ArgValues : sensor_data' = set_cpu_data(sensor_data, v, v, v, v, v)
    /\ UNCHANGED restVars

SetGpu ==
    /\ \E v \in ArgValues : sensor_data' = set_gpu_data(sensor_data, v, v, v, v, v)
    /\ UNCHANGED restVars

SetMemory ==
    /\ \E v \in ArgValues : sensor_data' = set_memory_data(sensor_data, v, v)
    /\ UNCHANGED restVars

SetDisk ==
    /\ \E v \in ArgValues : sensor_data' = set_disk_data(sensor_data, v, v)
    /\ UNCHANGED restVars

SetNetwork ==
    /\ \E v \in ArgValues : sensor_data' = set_network_speed(sensor_data, v, v)
    /\ UNCHANGED restVars

SetDisplayMode ==
    /\ \E v \in ArgValues : sensor_data' = set_display_mode(sensor_data, v)
    /\ UNCHANGED restVars

InitSetters ==
    InitCommon /\ TrackerFresh /\ MonitorFresh /\ nodes = {} /\ pc = "setters"

NextSetters ==
    \/ SetCpu
    \/ SetGpu
    \/ SetMemory
    \/ SetDisk
    \/ SetNetwork
    \/ SetDisplayMode

SpecSetters == InitSetters /\ [][NextSetters]_vars

\* -------------------------------------------------------------- SpecPacket

\* the arguments of the setter calls: below every range, inside every range,
\* above every range, and at the upper ends
CpuArgs ==
    {<<-10, -10, -10, -10, -10>>, <<45, 25, 3500, 1200, 65>>,
     <<300, 150, 70000, 70000, 70000>>, <<255, 100, 256, 255, 511>>}
GpuArgs ==
    {<<-10, -10, -10, -10, -10>>, <<55, 30, 1800, 1500, 120>>,
     <<300, 150, 70000, 70000, 70000>>, <<254, 99, 65535, 257, 258>>}
MemArgs == {<<-10, -10>>, <<60, 35>>, <<150, 300>>}
DiskArgs == {<<-10, -10>>, <<40, 30>>, <<101, 256>>}
NetArgs == {<<0, 0>>, <<305419896, 1000000>>, <<-10, 2147483647>>}
ModeArgs == {0, 3, 256}

pkRest == <<envVars, hidVars, runVars, obsVars, runObsVars, cpuVars, monVars>>

\* packet holds what a builder returned for the snapshot as it is now: a
\* setter call discards it
NoPacket == packet' = ZeroBuffer /\ built' = "none"

PkSetCpu ==
    /\ \E a \in CpuArgs :
          /\ sensor_data' = set_cpu_data(sensor_data, a[1], a[2], a[3], a[4], a[5])
          /\ usage_in' = [usage_in EXCEPT !.cpu = a[2]]
    /\ NoPacket
    /\ UNCHANGED pkRest

PkSetGpu ==
    /\ \E a \in GpuArgs :
          /\ sensor_data' = set_gpu_data(sensor_data, a[1], a[2], a[3], a[4], a[5])
          /\ usage_in' = [usage_in EXCEPT !.gpu = a[2]]
    /\ NoPacket
    /\ UNCHANGED pkRest

PkSetMemory ==
    /\ \E a \in MemArgs :
          /\ sensor_data' = set_memory_data(sensor_data, a[1], a[2])
          /\ usage_in' = [usage_in EXCEPT !.mem = a[1]]
    /\ NoPacket
    /\ UNCHANGED pkRest

PkSetDisk ==
    /\ \E a \in DiskArgs :
          /\ sensor_data' = set_disk_data(sensor_data, a[1], a[2])
          /\ usage_in' = [usage_in EXCEPT !.disk = a[1]]
    /\ NoPacket
    /\ UNCHANGED pkRest

PkSetNetwork ==
    /\ \E a \in NetArgs : sensor_data' = set_network_speed(sensor_data, a[1], a[2])
    /\ NoPacket
    /\ UNCHANGED <<pkRest, usage_in>>

PkSetDisplayMode ==
    /\ \E mode \in ModeArgs : sensor_data' = set_display_mode(sensor_data, mode)
    /\ NoPacket
    /\ UNCHANGED <<pkRest, usage_in>>

\* a builder call: the packet it returns, or the ValueError it raises
Returned(pk, family) ==
    IF PacketRaises(pk)
    THEN packet' = ZeroBuffer /\ built' = "error"
    ELSE packet' = pk /\ built' = family

PkBuildGamdias ==
    /\ \E now \in NowValues :
          Returned(_build_gamdias_packet(sensor_data, now), "gamdias")
    /\ UNCHANGED <<pkRest, sensor_data, usage_in>>

PkBuildHwcx ==
    /\ \E now \in NowValues :
          Returned(_build_hwcx_packet(sensor_data, now), "hwcx")
    /\ UNCHANGED <<pkRest, sensor_data, usage_in>>

InitPacket ==
    InitCommon /\ TrackerFresh /\ MonitorFresh /\ nodes = {} /\ pc = "packet"

NextPacket ==
    \/ PkSetCpu
    \/ PkSetGpu
    \/ PkSetMemory
    \/ PkSetDisk
    \/ PkSetNetwork
    \/ PkSetDisplayMode
    \/ PkBuildGamdias
    \/ PkBuildHwcx

SpecPacket == InitPacket /\ [][NextPacket]_vars

\* ------------------------------------------------------------- SpecTracker

\* what a read of the first line of /proc/stat gives: idle + iowait and the
\* sum of the first ten fields, or a failure to read or parse it. The pairs
\* are successive samples of a running system, samples whose idle counter or
\* whose total counter went backwards, and a counter reset.
StatReads ==
    {NoStat}
    \cup {[ok |-> TRUE, idle |-> r[1], total |-> r[2]] :
            r \in {<<100, 1000>>, <<150, 1200>>, <<90, 1100>>,
                   <<400, 1200>>, <<100, 900>>, <<0, 0>>,
                   <<200, 1400>>, <<250, 1400>>, <<300, 2000>>}}

Tracker == [last_idle |-> _last_idle, last_total |-> _last_total,
            initialized |-> _initialized]

\* _init_values: a read that fails leaves the fields of __init__
_init_values(t, r) ==
    IF r.ok
    THEN [last_idle |-> r.idle, last_total |-> r.total, initialized |-> TRUE]
    ELSE t

\* mutant: the percentage is returned as computed
Saturate_none(num, den) == [num |-> num, den |-> den]

\* max(0.0, min(100.0, usage)), usage being num/den with den > 0
Saturate(num, den) ==
    IF num < 0 THEN ZeroUsage
    ELSE IF num > 100 * den THEN [num |-> 100, den |-> 1]
    ELSE [num |-> num, den |-> den]

\* mutant: a failed read forgets the baseline
ReadFailed_reset(t) ==
    [last_idle |-> 0, last_total |-> 0, initialized |-> FALSE, result |-> ZeroUsage]

\* get_usage, lines 97-100: the except clause
ReadFailed(t) ==
    [last_idle |-> t.last_idle, last_total |-> t.last_total,
     initialized |-> t.initialized, result |-> ZeroUsage]

\* get_usage: the fields after the call and the value returned
get_usage(t, r) ==
    IF ~r.ok THEN ReadFailed(t)
    ELSE IF ~t.initialized
    THEN [last_idle |-> r.idle, last_total |-> r.total, initialized |-> TRUE,
          result |-> ZeroUsage]
    ELSE LET idle_delta == r.idle - t.last_idle
             total_delta == r.total - t.last_total
         IN [last_idle |-> r.idle, last_total |-> r.total, initialized |-> TRUE,
             result |-> IF total_delta <= 0 THEN ZeroUsage
                        ELSE Saturate(100 * (total_delta - idle_delta), total_delta)]

trRest == <<envVars, hidVars, sensor_data, runVars, obsVars, runObsVars, pktVars,
            monVars>>

\* CpuUsageTracker(): __init__ with the read of _init_values
InitTracker ==
    /\ InitCommon /\ MonitorFresh /\ nodes = {} /\ pc = "tracker"
    /\ \E r \in StatReads :
          LET t == _init_values([last_idle |-> 0, last_total |-> 0,
                                 initialized |-> FALSE], r)
          IN /\ _last_idle = t.last_idle
             /\ _last_total = t.last_total
             /\ _initialized = t.initialized
             /\ stat = r
             /\ good = IF r.ok THEN r ELSE NoStat
    /\ usage_out = ZeroUsage
    /\ calls = 0

GetUsage ==
    /\ \E r \in StatReads :
          LET t == get_usage(Tracker, r)
          IN /\ _last_idle' = t.last_idle
             /\ _last_total' = t.last_total
             /\ _initialized' = t.initialized
             /\ usage_out' = t.result
             /\ stat' = r
             /\ good' = IF r.ok THEN r ELSE good
    /\ calls' = min(calls + 1, CountCap)
    /\ UNCHANGED trRest

NextTracker == GetUsage

SpecTracker == InitTracker /\ [][NextTracker]_vars

\* ---------------------------------------------------------- HardwareMonitor

\* str.lower() on the characters of the labels
Lower(c) ==
    CASE c = "P" -> "p" [] c = "T" -> "t" [] c = "C" -> "c" [] c = "E" -> "e"
      [] c = "D" -> "d" [] c = "G" -> "g"
      [] OTHER -> c

\* word in text
Contains(text, word) ==
    \E i \in 1..(Len(text) - Len(word) + 1) :
        SubSeq(text, i, i + Len(word) - 1) = word

\* the words that mark the preferred channel of a CPU chip and of an AMD chip
CpuWords ==
    {<<"p", "a", "c", "k", "a", "g", "e">>, <<"t", "c", "t", "l">>,
     <<"t", "d", "i", "e">>}
AmdWords == {<<"e", "d", "g", "e">>}

\* a temp<i>_input that does not exist
NoChannel == [st |-> "absent", v |-> 0, lst |-> "absent", label |-> <<>>]

\* the nine channels of a chip, given the ones that exist
ChipOf(s) == [i \in 1..9 |-> IF i <= Len(s) THEN s[i] ELSE NoChannel]

\* label_file.read_text().strip().lower(), "" when there is no label file or
\* it cannot be read
ReadLabel(ch) ==
    IF ch.lst = "ok" THEN [i \in 1..Len(ch.label) |-> Lower(ch.label[i])] ELSE <<>>

\* the temperature loop of get_cpu_data (lines 245-269) and of
\* _get_amd_gpu_data (lines 361-384), from channel i on; _read_sysfs_value
\* gives a value for a file that exists, can be read and holds a number
RECURSIVE TempLoop(_, _, _, _)
TempLoop(chip, words, i, acc) ==
    IF i > 9 THEN acc
    ELSE IF chip[i].st # "ok" THEN TempLoop(chip, words, i + 1, acc)
    ELSE IF \E w \in words : Contains(ReadLabel(chip[i]), w)
    THEN [temperature |-> chip[i].v, is_valid |-> TRUE]
    ELSE IF acc.temperature = 0
    THEN TempLoop(chip, words, i + 1, [temperature |-> chip[i].v, is_valid |-> TRUE])
    ELSE TempLoop(chip, words, i + 1, acc)

\* get_cpu_data: s.usage is what get_usage returns, s.freq the state of
\* scaling_cur_freq, s.hwmon whether _find_cpu_temp_hwmon finds a chip
get_cpu_data(s) ==
    LET t == IF s.hwmon
             THEN TempLoop(s.chip, CpuWords, 1,
                           [temperature |-> 0, is_valid |-> s.usage > 0])
             ELSE [temperature |-> 0, is_valid |-> s.usage > 0]
    IN [NoReading EXCEPT !.usage = s.usage,
                         !.frequency = IF s.freq.st = "ok" THEN s.freq.v ELSE 0,
                         !.temperature = t.temperature,
                         !.is_valid = t.is_valid]

\* _check_nvidia: the tool ran and exited with 0
_check_nvidia(tool) == tool = "ok"

\* the loop of _detect_gpu over the entries of /sys/class/drm, from entry i on
RECURSIVE DetectLoop(_, _)
DetectLoop(cards, i) ==
    IF i > Len(cards) THEN "none"
    ELSE IF ~cards[i].card \/ ~cards[i].device THEN DetectLoop(cards, i + 1)
    ELSE IF cards[i].vendor = "0x1002"
    THEN (IF cards[i].hwmon THEN "amd" ELSE DetectLoop(cards, i + 1))
    ELSE IF cards[i].vendor = "0x8086" THEN "intel"
    ELSE DetectLoop(cards, i + 1)

\* mutant: the DRM entries are probed before the NVIDIA tool
_detect_gpu_drm_first(nvidia_available, cards) ==
    IF DetectLoop(cards, 1) # "none" THEN DetectLoop(cards, 1)
    ELSE IF nvidia_available THEN "nvidia" ELSE "none"

\* _detect_gpu: the vendor it leaves in _gpu_vendor ("none": None)
_detect_gpu(nvidia_available, cards) ==
    IF nvidia_available THEN "nvidia" ELSE DetectLoop(cards, 1)

\* the first field of the tool's answer that float() rejects, 8 when none
NvStop(out) ==
    IF \E k \in 1..7 : out.f[k].st = "bad"
    THEN CHOOSE k \in 1..7 : /\ out.f[k].st = "bad"
                             /\ \A j \in 1..(k - 1) : out.f[j].st # "bad"
    ELSE 8

\* float(parts[k]) if parts[k] != '[N/A]' else dflt
NvField(out, k, dflt) == IF out.f[k].st = "ok" THEN out.f[k].v ELSE dflt

\* _get_nvidia_gpu_data: the fields are assigned in order until one raises;
\* fields 1..7 of the answer are temperature, utilization, clock, memory used,
\* memory total, fan speed and power draw
_get_nvidia_gpu_data(out) ==
    IF out.st # "ok" THEN NoReading
    ELSE LET stop == NvStop(out)
         IN [temperature |-> IF 1 < stop THEN 1000 * NvField(out, 1, 0) ELSE 0,
             usage |-> IF 2 < stop THEN NvField(out, 2, 0) ELSE 0,
             frequency |-> IF 3 < stop THEN 1000 * NvField(out, 3, 0) ELSE 0,
             memory_usage |->
                 IF 5 < stop /\ NvField(out, 5, 1) > 0
                 THEN (100 * NvField(out, 4, 0)) \div NvField(out, 5, 1) ELSE 0,
             fan_rpm |-> IF 6 < stop THEN NvField(out, 6, 0) * 30 ELSE 0,
             power |-> IF 7 < stop THEN 1000000 * NvField(out, 7, 0) ELSE 0,
             is_valid |-> stop = 8]

\* what the sysfs files of an AMD GPU hold, and the labels of its channels
AmdValue ==
    [temp1 |-> 65000, temp2 |-> 58000, busy |-> 37, busy2 |-> 36, activity |-> 35,
     sclk |-> 1900, freq1 |-> 1850000000, fan1 |-> 1400, fan2 |-> 1300,
     power_avg |-> 90000000, power_in |-> 88000000]
AmdLabel ==
    [temp1 |-> <<"j", "u", "n", "c", "t", "i", "o", "n">>,
     temp2 |-> <<"E", "d", "g", "e">>]

\* _get_amd_gpu_data: s gives the state of each file
_get_amd_gpu_data(s) ==
    LET ch(k) == [st |-> s[k], v |-> AmdValue[k], lst |-> "ok", label |-> AmdLabel[k]]
        t == TempLoop(ChipOf(<<ch("temp1"), ch("temp2")>>), AmdWords, 1,
                      [temperature |-> 0, is_valid |-> FALSE])
        method == IF s.busy = "ok" THEN "busy"
                  ELSE IF s.busy2 = "ok" THEN "busy2"
                  ELSE IF s.activity = "ok" THEN "activity" ELSE "none"
        sclk == IF s.sclk = "ok" THEN 1000 * AmdValue.sclk ELSE 0
        avg == IF s.power_avg = "ok" THEN AmdValue.power_avg ELSE 0
    IN [temperature |-> t.temperature,
        usage |-> IF method = "none" THEN 0 ELSE AmdValue[method],
        frequency |-> IF sclk = 0 /\ s.freq1 = "ok"
                      THEN AmdValue.freq1 \div 1000 ELSE sclk,
        memory_usage |-> 0,
        fan_rpm |-> IF s.fan1 = "ok" THEN AmdValue.fan1
                    ELSE IF s.fan2 = "ok" THEN AmdValue.fan2 ELSE 0,
        power |-> IF avg = 0 /\ s.power_in = "ok" THEN AmdValue.power_in ELSE avg,
        is_valid |-> t.is_valid \/ method \in {"busy", "busy2"}]

\* what the sysfs files of an Intel GPU hold
IntelValue == [gt_freq |-> 1100, temp1 |-> 52000]

\* _get_intel_gpu_data
_get_intel_gpu_data(s) ==
    [NoReading EXCEPT
        !.frequency = IF s.gt_freq = "ok" THEN 1000 * IntelValue.gt_freq ELSE 0,
        !.temperature = IF s.temp1 = "ok" THEN IntelValue.temp1 ELSE 0,
        !.is_valid = (s.gt_freq = "ok" \/ s.temp1 = "ok")]

\* get_gpu_data: the reader of the vendor found at construction
get_gpu_data(vendor, s) ==
    CASE vendor = "nvidia" -> _get_nvidia_gpu_data(s)
      [] vendor = "amd"    -> _get_amd_gpu_data(s)
      [] vendor = "intel"  -> _get_intel_gpu_data(s)
      [] OTHER             -> NoReading

\* ------------------------------------------------------------- SpecMonitor

\* what running nvidia-smi gives: exit status 0, another exit status, no
\* such program, no answer within the timeout
ToolProbes == {"ok", "fail", "missing", "timeout"}

\* the entries of /sys/class/drm: a connector (card0-DP-1), a card of another
\* vendor, an AMD card with and without a sensor chip, an Intel card
CardKinds ==
    {[card |-> FALSE, device |-> TRUE, vendor |-> "0x1002", hwmon |-> TRUE],
     [card |-> TRUE, device |-> TRUE, vendor |-> "0x10de", hwmon |-> FALSE],
     [card |-> TRUE, device |-> TRUE, vendor |-> "0x1002", hwmon |-> TRUE],
     [card |-> TRUE, device |-> TRUE, vendor |-> "0x1002", hwmon |-> FALSE],
     [card |-> TRUE, device |-> TRUE, vendor |-> "0x8086", hwmon |-> FALSE]}

\* the entries in the order iterdir() gives them
CardLists == {<<>>} \cup {<<a>> : a \in CardKinds}
                    \cup {<<a, b>> : a \in CardKinds, b \in CardKinds}

\* the states of a set of files or fields (each present and readable, absent
\* or `other`): all fine, one of them not, none of them
States(keys, other) ==
    {[k \in keys |-> "ok"]}
    \cup {[k \in keys |-> IF k = j THEN x ELSE "ok"] :
            j \in keys, x \in {"absent", other}}
    \cup {[k \in keys |-> x] : x \in {"absent", other}}

\* what a field of the tool's answer holds when it holds a number
NvValue == <<55, 30, 1800, 2048, 8192, 40, 120>>

\* the answers of nvidia-smi to the query of the reader: a field is a number,
\* '[N/A]' (absent) or a text float() rejects, such as '[Not Supported]'
NvidiaOutputs ==
    {[st |-> st, f |-> [k \in 1..7 |-> [st |-> "absent", v |-> 0]]] :
        st \in {"fail", "missing", "timeout", "short"}}
    \cup {[st |-> "ok", f |-> [k \in 1..7 |-> [st |-> s[k], v |-> NvValue[k]]]] :
            s \in States(1..7, "bad")}

\* the channels of the CPU chip: Package id 0, Tctl, Core 0, no label, a
\* channel that reads 0, an unreadable one
CpuChannels ==
    [pkg  |-> [st |-> "ok", v |-> 60000, lst |-> "ok",
               label |-> <<"P", "a", "c", "k", "a", "g", "e", " ", "i", "d", " ", "0">>],
     tctl |-> [st |-> "ok", v |-> 70000, lst |-> "ok", label |-> <<"T", "c", "t", "l">>],
     core |-> [st |-> "ok", v |-> 50000, lst |-> "ok",
               label |-> <<"C", "o", "r", "e", " ", "0">>],
     plain |-> [st |-> "ok", v |-> 45000, lst |-> "absent", label |-> <<>>],
     zero |-> [st |-> "ok", v |-> 0, lst |-> "bad", label |-> <<>>],
     bad  |-> [st |-> "bad", v |-> 0, lst |-> "ok", label |-> <<"T", "d", "i", "e">>]]

\* the chips get_cpu_data may find: with no channel, with temp1..temp3, with
\* temp1 and temp3
Chips ==
    {ChipOf(<<>>)}
    \cup {ChipOf(<<CpuChannels[a], CpuChannels[b], CpuChannels.tctl>>) :
            a \in {"plain", "zero", "bad"}, b \in {"core", "pkg", "plain"}}
    \cup {ChipOf(<<CpuChannels[a], NoChannel, CpuChannels[b]>>) :
            a \in {"core", "zero", "bad"}, b \in {"plain", "core"}}

\* what get_cpu_data finds
CpuSources ==
    {[usage |-> a[1], freq |-> [st |-> a[2], v |-> 3500000],
      hwmon |-> c # <<>>, chip |-> IF c = <<>> THEN ChipOf(<<>>) ELSE c] :
        a \in {<<25, "ok">>, <<0, "absent">>, <<0, "bad">>},
        c \in Chips \cup {<<>>}}

\* what get_gpu_data finds, for each vendor
GpuSources(vendor) ==
    CASE vendor = "nvidia" -> NvidiaOutputs
      [] vendor = "amd"    -> States(DOMAIN AmdValue, "bad")
      [] vendor = "intel"  -> [DOMAIN IntelValue -> {"ok", "absent", "bad"}]
      [] OTHER             -> {<<>>}

moRest == <<envVars, hidVars, sensor_data, runVars, obsVars, runObsVars,
            pktVars, cpuVars>>

\* HardwareMonitor(): __init__ with the probe of _check_nvidia and _detect_gpu
InitMonitor ==
    /\ InitCommon /\ TrackerFresh /\ nodes = {} /\ pc = "monitor"
    /\ \E tool \in ToolProbes, cards \in CardLists :
          /\ probe = [tool |-> tool, cards |-> cards]
          /\ _gpu_vendor = _detect_gpu(_check_nvidia(tool), cards)
    /\ src = NoSrc
    /\ reading = NoReading

MonGetCpuData ==
    /\ \E s \in CpuSources :
          /\ reading' = get_cpu_data(s)
          /\ src' = [reader |-> "cpu", tool |-> "missing", in |-> s]
    /\ UNCHANGED <<_gpu_vendor, probe, moRest>>

\* get_gpu_data; tool is what the probe of the constructor would find by
\* now: what the reader's own call of the tool shows, and otherwise what it
\* found then or a tool installed since
MonGetGpuData ==
    /\ \E s \in GpuSources(_gpu_vendor), tool \in ToolProbes :
          /\ IF _gpu_vendor = "nvidia"
             THEN tool = (IF s.st \in {"ok", "short"} THEN "ok" ELSE s.st)
             ELSE tool \in {"ok", probe.tool}
          /\ reading' = get_gpu_data(_gpu_vendor, s)
          /\ src' = [reader |-> _gpu_vendor, tool |-> tool, in |-> s]
    /\ UNCHANGED <<_gpu_vendor, probe, moRest>>

NextMonitor ==
    \/ MonGetCpuData
    \/ MonGetGpuData

SpecMonitor == InitMonitor /\ [][NextMonitor]_vars

\* --------------------------------------------------------- sensor readings

\* what HardwareMonitor.get_cpu_data returns, already converted with int()
CpuReadings ==
    {[temperature |-> 45, usage |-> 25, frequency |-> 3500, fan_rpm |-> 0, power |-> 0]}

\* what HardwareMonitor.get_gpu_data returns: a valid reading, and a reading
\* that is not valid although some of its fields were filled in
GpuReadings ==
    {[is_valid |-> TRUE, temperature |-> 55, usage |-> 30, frequency |-> 1800,
      fan_rpm |-> 1500, power |-> 120],
     [is_valid |-> FALSE, temperature |-> 0, usage |-> 7, frequency |-> 1800,
      fan_rpm |-> 900, power |-> 15]}

\* what _get_memory_usage and _get_disk_usage return
MemReadings == {60}
DiskReadings == {40}

\* mutant: an invalid GPU reading leaves the GPU fields of the snapshot alone
UpdateSnapshot_keepGpu(sd, cpu, gpu, mem_usage, disk_usage) ==
    LET s1 == set_cpu_data(sd, cpu.temperature, cpu.usage, cpu.frequency,
                           cpu.fan_rpm, cpu.power)
        s2 == IF gpu.is_valid
              THEN set_gpu_data(s1, gpu.temperature, gpu.usage, gpu.frequency,
                                gpu.fan_rpm, gpu.power)
              ELSE s1
        s3 == set_memory_data(s2, mem_usage, 0)
    IN set_disk_data(s3, disk_usage, 0)

\* the snapshot after the sensor part of _update_cycle
UpdateSnapshot(sd, cpu, gpu, mem_usage, disk_usage) ==
    LET s1 == set_cpu_data(sd, cpu.temperature, cpu.usage, cpu.frequency,
                           cpu.fan_rpm, cpu.power)
        s2 == IF gpu.is_valid
              THEN set_gpu_data(s1, gpu.temperature, gpu.usage, gpu.frequency,
                                gpu.fan_rpm, gpu.power)
              ELSE set_gpu_data(s1, 0, 0, 0, 0, 0)
        s3 == set_memory_data(s2, mem_usage, 0)
    IN set_disk_data(s3, disk_usage, 0)

\* ------------------------------------------------------------ LKDisplay.run

\* the history counters after a send_data call: a descriptor the call reached
\* counts one more call, and one more init sequence if the call wrote one
Bump(cnt, tabAfter, devsBefore, hit) ==
    [f \in Fds |->
        IF tabAfter[f].path = NoPath THEN 0
        ELSE IF \E p \in hit : devsBefore[p] = f
             THEN min(cnt[f] + 1, CountCap) ELSE cnt[f]]

TrackOpen ==
    /\ inits' = [f \in Fds |-> IF fdtab[f] # fdtab'[f] THEN 0 ELSE inits[f]]
    /\ served' = [f \in Fds |-> IF fdtab[f] # fdtab'[f] THEN 0 ELSE served[f]]

TrackSend ==
    LET initHit == {p \in Paths : HasInit(wlog'[p])}
        servedHit == {p \in Paths : device_info[p] # NoInfo}
    IN /\ inits' = Bump(inits, fdtab', devices, initHit)
       /\ served' = Bump(served, fdtab', devices, servedHit)

Quiet == op' = "step" /\ ret' = NoRet /\ wlog' = EmptyLog

\* mutant: start() goes on with no device
StartFails_never(count) == count < 0

\* start(), line 117: if count == 0
StartFails(count) == count = 0

\* start(), lines 108-125: open the devices; no device, no service
RunStart ==
    /\ pc = "start"
    /\ \E unreadable \in SUBSET Scannable :
          \E unopenable \in SUBSET (Scannable \ unreadable) :
              DoOpen(unreadable, unopenable)
    /\ TrackOpen
    /\ startCount' = ret'.count
    /\ IF StartFails(ret'.count)
       THEN pc' = "done" /\ retcode' = 1
       ELSE pc' = "install" /\ retcode' = retcode
    /\ UNCHANGED <<nodes, sensor_data, running, handlers, warm,
                   signalled, cycle, everCycle, everTransmit, everDisconnect>>
    /\ UNCHANGED unitVars

\* start(), lines 128-129
RunInstallHandlers ==
    /\ pc = "install"
    /\ handlers' = TRUE
    /\ pc' = "set_running"
    /\ Quiet
    /\ UNCHANGED <<envVars, hidVars, sensor_data, running, warm, retcode,
                   inits, served, runObsVars>>
    /\ UNCHANGED unitVars

\* start(), line 131
RunSetRunning ==
    /\ pc = "set_running"
    /\ running' = TRUE
    /\ pc' = "warmup"
    /\ Quiet
    /\ UNCHANGED <<envVars, hidVars, sensor_data, handlers, warm, retcode,
                   inits, served, runObsVars>>
    /\ UNCHANGED unitVars

\* mutant: the warm-up ends after its first sample
WarmupDone_first(taken) == taken >= 1

\* run(), line 160: for _ in range(3)
WarmupDone(taken) == taken >= WARMUP_SAMPLES

\* get_cpu_data calls get_usage once (hardware_monitor.py line 227): the
\* number of calls made on the tracker, counted up to the second update cycle
NextCall(n) == min(n + 1, WARMUP_SAMPLES + 2)

\* run(), lines 160-162: one sample of the warm-up, read and discarded
RunWarmup ==
    /\ pc = "warmup"
    /\ warm' = warm + 1
    /\ calls' = NextCall(calls)
    /\ pc' = IF WarmupDone(warm + 1) THEN "loop" ELSE "warmup"
    /\ Quiet
    /\ UNCHANGED <<envVars, hidVars, sensor_data, running, handlers, retcode,
                   inits, served, runObsVars>>
    /\ UNCHANGED <<pktVars, cpuRest, monVars>>

\* run(), line 167: while self.running
RunLoopTest ==
    /\ pc = "loop"
    /\ IF running
       THEN pc' = "cycle" /\ cycle' = NoCycle /\ everCycle' = TRUE
       ELSE pc' = "stop" /\ UNCHANGED <<cycle, everCycle>>
    /\ Quiet
    /\ UNCHANGED <<envVars, hidVars, sensor_data, running, handlers, warm,
                   retcode, inits, served, signalled, everTransmit,
                   everDisconnect, startCount>>
    /\ UNCHANGED unitVars

\* mutant: every update cycle runs a discovery pass
NeedsDiscovery_always(devs) == TRUE

\* the test of _update_cycle, line 180
NeedsDiscovery(devs) == get_online_device_count(devs) = 0

\* mutant: the cycle goes on when discovery opened nothing
AfterDiscovery_goOn(count) == "sensors"

\* _update_cycle, lines 183-185: if count == 0: sleep and return
AfterDiscovery(count) == IF count = 0 THEN "backoff" ELSE "sensors"

\* _update_cycle, lines 180-185: with no device, one discovery pass
RunCycleCheck ==
    /\ pc = "cycle"
    /\ IF NeedsDiscovery(devices)
       THEN /\ \E unreadable \in SUBSET Scannable :
                  \E unopenable \in SUBSET (Scannable \ unreadable) :
                      DoOpen(unreadable, unopenable)
            /\ TrackOpen
            /\ cycle' = [cycle EXCEPT !.discovered = TRUE,
                                      !.count = get_online_device_count(devices')]
            /\ pc' = AfterDiscovery(ret'.count)
       ELSE /\ Quiet
            /\ cycle' = [cycle EXCEPT !.count = get_online_device_count(devices)]
            /\ pc' = "sensors"
            /\ UNCHANGED <<fdtab, hidVars, inits, served>>
    /\ UNCHANGED <<nodes, sensor_data, running, handlers, warm, retcode,
                   signalled, everCycle, everTransmit, everDisconnect, startCount>>
    /\ UNCHANGED unitVars

\* _update_cycle, lines 184-185: time.sleep(5), return
RunBackoff ==
    /\ pc = "backoff"
    /\ cycle' = [cycle EXCEPT !.slept = TRUE]
    /\ pc' = "sleep"
    /\ Quiet
    /\ UNCHANGED <<envVars, hidVars, sensor_data, running, handlers, warm,
                   retcode, inits, served, signalled, everCycle, everTransmit,
                   everDisconnect, startCount>>
    /\ UNCHANGED unitVars

\* _update_cycle, lines 188-217: read the sensors into the snapshot
RunSensors ==
    /\ pc = "sensors"
    /\ \E cpu \in CpuReadings, gpu \in GpuReadings,
          mem_usage \in MemReadings, disk_usage \in DiskReadings :
          /\ sensor_data' = UpdateSnapshot(sensor_data, cpu, gpu, mem_usage, disk_usage)
          /\ cycle' = [cycle EXCEPT !.reads = {"cpu", "gpu", "mem", "disk"},
                                    !.updates = {"cpu", "gpu", "mem", "disk"},
                                    !.gpu_valid = gpu.is_valid,
                                    !.gpu_before = sensor_data.gpu_temp,
                                    !.cpu_call = NextCall(calls)]
    /\ calls' = NextCall(calls)
    /\ pc' = "send"
    /\ Quiet
    /\ UNCHANGED <<envVars, hidVars, running, handlers, warm, retcode,
                   inits, served, signalled, everCycle, everTransmit,
                   everDisconnect, startCount>>
    /\ UNCHANGED <<pktVars, cpuRest, monVars>>

\* _update_cycle, line 220
RunSend ==
    /\ pc = "send"
    /\ \E answers \in [ActivePaths(devices) -> WriteAnswers],
          initfails \in [NeedInit(HidState) -> InitFailChoices] :
          DoSend(answers, initfails)
    /\ TrackSend
    /\ cycle' = [cycle EXCEPT !.transmits = @ + 1]
    /\ everTransmit' = TRUE
    /\ everDisconnect' = (everDisconnect \/ ActivePaths(devices') # ActivePaths(devices))
    /\ pc' = "sleep"
    /\ UNCHANGED <<nodes, sensor_data, running, handlers, warm, retcode,
                   signalled, everCycle, startCount>>
    /\ UNCHANGED unitVars

\* run(), line 169: time.sleep(refresh_delay)
RunSleep ==
    /\ pc = "sleep"
    /\ pc' = "loop"
    /\ Quiet
    /\ UNCHANGED <<envVars, hidVars, sensor_data, running, handlers, warm,
                   retcode, inits, served, runObsVars>>
    /\ UNCHANGED unitVars

\* run(), line 173: stop(), then return 0
RunStop ==
    /\ pc = "stop"
    /\ running' = FALSE
    /\ DoClose
    /\ TrackOpen
    /\ pc' = "done"
    /\ retcode' = 0
    /\ UNCHANGED <<nodes, sensor_data, handlers, warm, runObsVars>>
    /\ UNCHANGED unitVars

\* _signal_handler, lines 146-149: runs between any two statements once
\* start() has installed it
Signal ==
    /\ handlers
    /\ pc # "done"
    /\ running' = FALSE
    /\ signalled' = TRUE
    /\ UNCHANGED <<envVars, hidVars, sensor_data, pc, handlers, warm, retcode,
                   obsVars, cycle, everCycle, everTransmit, everDisconnect,
                   startCount>>
    /\ UNCHANGED unitVars

RunEnvStep(p) ==
    /\ pc # "done"
    /\ (Plug(p) \/ Unplug(p))
    /\ UNCHANGED <<hidVars, sensor_data, runVars, obsVars, runObsVars>>
    /\ UNCHANGED unitVars

Init == InitCommon /\ TrackerFresh /\ MonitorFresh /\ pc = "start"

Next ==
    \/ RunStart
    \/ RunInstallHandlers
    \/ RunSetRunning
    \/ RunWarmup
    \/ RunLoopTest
    \/ RunCycleCheck
    \/ RunBackoff
    \/ RunSensors
    \/ RunSend
    \/ RunSleep
    \/ RunStop
    \/ Signal
    \/ \E p \in Paths : RunEnvStep(p)

Spec == Init /\ [][Next]_vars

\* ===================================================================
\* Properties
\* ===================================================================

\* what the data write of a path answered in a send_data call (bytes written,
\* or -errno), 0 when the call made no data write for the path
DataRes(writes) ==
    IF writes # <<>> /\ writes[Len(writes)].pkt[1] # "init"
    THEN writes[Len(writes)].res ELSE 0

InitThenData(writes) ==
    /\ Len(writes) = 4
    /\ \A i \in 1..3 : writes[i].pkt = <<"init", i>>
    /\ writes[4].pkt = <<"gamdias", 0>>

\* C1: a path whose data write raises errno 19 in send_data has left the
\* active set when send_data returns, its descriptor is closed, it is not
\* counted by get_online_device_count and it is no longer marked initialized;
\* a path that open_devices adds to the active set starts uninitialized, and
\* the next send_data writes the three init reports to it before the data.
C1_DisconnectRemovesAndReinit ==
    [][\A p \in Paths :
        /\ (op' = "send_data" /\ DataRes(wlog'[p]) = -ENODEV) =>
              /\ devices'[p] = NoFd
              /\ fdtab'[devices[p]] = ClosedFd
              /\ p \notin initialized_devices'
              /\ get_online_device_count(devices')
                    <= Cardinality(ActivePaths(devices) \ {p})
        /\ (op' = "open_devices" /\ devices[p] = NoFd /\ devices'[p] # NoFd) =>
              p \notin initialized_devices'
        /\ (op' = "send_data" /\ devices[p] # NoFd
                /\ p \notin initialized_devices /\ device_info[p].is_gamdias) =>
              InitThenData(wlog'[p])
    ]_vars

\* C1 witness: send_data has just removed a path whose write raised errno 19
C1_Witness ==
    /\ op = "send_data"
    /\ \E p \in Paths : DataRes(wlog[p]) = -ENODEV /\ devices[p] = NoFd

\* C2: a data write that fails for another cause than errno 19, or is
\* partial, leaves the path in the active set with the same open descriptor
\* and the same device info, and marked initialized as the init branch left
\* it; every send_data call writes a data packet to every path of the active
\* set, so the path is written to again by the next call.
C2_TransientErrorKeepsDevice ==
    [][\A p \in Paths :
        /\ (op' = "send_data" /\ DataRes(wlog'[p]) # 0
                /\ DataRes(wlog'[p]) # -ENODEV /\ DataRes(wlog'[p]) # REPORT_SIZE) =>
              /\ devices[p] # NoFd
              /\ devices'[p] = devices[p]
              /\ fdtab'[devices[p]] = fdtab[devices[p]]
              /\ fdtab[devices[p]].path = p
              /\ device_info'[p] = device_info[p]
              /\ p \in initialized_devices'
        /\ (op' = "send_data" /\ devices[p] # NoFd) =>
              /\ DataRes(wlog'[p]) # 0
              /\ wlog'[p][Len(wlog'[p])].fd = devices[p]
    ]_vars

\* C2 witness: a send_data call in which one path's write raised EIO and
\* another path's write was partial, both still in the active set
C2_Witness ==
    /\ op = "send_data"
    /\ \E p, q \in Paths :
          /\ DataRes(wlog[p]) = -5 /\ devices[p] # NoFd
          /\ DataRes(wlog[q]) = REPORT_SIZE - 1 /\ devices[q] # NoFd

\* C3: send_data returns True exactly when some data write of the call
\* wrote all 65 bytes (False for an empty active set, when every write
\* raised, and when every write was partial).
C3_SuccessIffFullWrite ==
    op = "send_data" =>
        (ret.ok <=> \E p \in Paths : DataRes(wlog[p]) = REPORT_SIZE)

\* C3 witness: send_data returned True although another path's write failed
C3_Witness ==
    /\ op = "send_data" /\ ret.ok
    /\ \E p \in Paths : DataRes(wlog[p]) < 0

\* C6: at most one open descriptor per peripheral path.
C6_OneDescriptorPerPath ==
    \A p \in Paths : Cardinality({f \in Fds : fdtab[f].path = p}) <= 1

\* the device a descriptor was opened on is a GAMDIAS ATLAS
OnGamdias(f) == NodeId(fdtab[f].path) = SUPPORTED_DEVICES[1]

\* C4: a descriptor opened on a GAMDIAS device has had the init sequence
\* written to it exactly once as soon as a send_data call has reached it,
\* however many calls follow while it stays open (and not before the first
\* call); a descriptor opened on a HWCX device never has.
C4_InitOncePerHandle ==
    \A f \in OpenFdSet(fdtab) :
        inits[f] = IF OnGamdias(f) /\ served[f] > 0 THEN 1 ELSE 0

\* C4 witness: two send_data calls have reached one GAMDIAS descriptor and
\* one HWCX descriptor
C4_Witness ==
    \E f, g \in OpenFdSet(fdtab) :
        /\ OnGamdias(f) /\ served[f] >= 2 /\ inits[f] = 1
        /\ ~OnGamdias(g) /\ served[g] >= 2

\* C5: in LKDisplay.run the open descriptors are at every point exactly the
\* descriptors held in the active set, and none is open once run has returned.
C5_NoDescriptorLeak ==
    /\ OpenFdSet(fdtab) = {devices[p] : p \in ActivePaths(devices)}
    /\ pc = "done" => OpenFdSet(fdtab) = {}

\* C5 witness: run has returned after a disconnect was detected and the
\* device was opened again by a later discovery pass
C5_Witness ==
    /\ pc = "done" /\ retcode = 0
    /\ everDisconnect
    /\ op = "close_devices"
    /\ cycle.discovered /\ cycle.count > 0

AllSensors == {"cpu", "gpu", "mem", "disk"}

\* C7: an update cycle that finds no device after its check reads no sensor,
\* updates no snapshot field and transmits nothing, and only sleeps the
\* backoff; a cycle that has a device after the check reads CPU, GPU, memory
\* and disk and calls send_data once.
C7_SkipOnlyWithoutDevices ==
    /\ pc = "backoff" =>
          /\ cycle.count = 0 /\ cycle.discovered
          /\ cycle.reads = {} /\ cycle.updates = {} /\ cycle.transmits = 0
    /\ pc \in {"sensors", "send"} => cycle.count > 0
    /\ pc = "sleep" =>
          /\ cycle.count >= 0
          /\ cycle.count = 0 =>
                /\ cycle.discovered /\ cycle.slept
                /\ cycle.reads = {} /\ cycle.updates = {} /\ cycle.transmits = 0
          /\ cycle.count > 0 =>
                /\ ~cycle.slept
                /\ cycle.reads = AllSensors /\ cycle.updates = AllSensors
                /\ cycle.transmits = 1

\* C7 witness: after cycles that transmitted, a cycle found no device, read
\* nothing and slept the backoff
C7_Witness ==
    /\ pc = "sleep" /\ cycle.count = 0 /\ cycle.slept
    /\ everTransmit

\* C8: when the open_devices of start() opens no device, run returns 1 with no
\* warm-up sample taken, no update cycle started and no transmit; warm-up,
\* cycles and transmits happen only after start() opened at least one device.
C8_NoDeviceNoLoop ==
    /\ (pc = "done" /\ startCount = 0) =>
          /\ retcode = 1
          /\ warm = 0 /\ ~everCycle /\ ~everTransmit /\ ~running
    /\ (warm > 0 \/ everCycle \/ everTransmit \/ pc \in {"loop", "cycle"}) =>
          startCount > 0
    /\ (pc = "done" /\ retcode = 1) => startCount = 0

\* C8 witness: run returned 1 although a supported device was attached (it
\* could not be opened)
C8_Witness ==
    /\ pc = "done" /\ retcode = 1
    /\ 1 \in nodes

\* C9: once a termination signal has reached the handler installed by
\* start(), the running flag is false at every later point, so the next loop
\* test ends the loop and run returns.
C9_SignalNeverLost ==
    signalled => ~running

\* C10: every field of the snapshot is within the range of its wire field:
\* 0..255 for the fields stored in one byte, 0..65535 for the 16-bit fields,
\* 0..2^32-1 for the two network fields (every integer of the model checker
\* is below 2^32, so the lower end is the one that is stated for them).
C10_SnapshotInWireRange ==
    /\ \A fld \in {"cpu_temp", "cpu_usage", "gpu_temp", "gpu_usage", "mem_usage",
                   "mem_temp", "disk_usage", "disk_temp", "display_mode"} :
          sensor_data[fld] \in 0..255
    /\ \A fld \in {"cpu_freq", "cpu_fan_rpm", "cpu_power",
                   "gpu_freq", "gpu_fan_rpm", "gpu_power"} :
          sensor_data[fld] \in 0..65535
    /\ \A fld \in {"net_upload", "net_download"} :
          sensor_data[fld] >= 0

\* the offset of each usage byte in the two layouts
UsageOffset ==
    [gamdias |-> [cpu |-> 6, gpu |-> 16, mem |-> 22, disk |-> 23],
     hwcx    |-> [cpu |-> 13, gpu |-> 16, mem |-> 19, disk |-> 23]]

\* C11: in a packet of either family, the byte of the CPU, GPU, memory and
\* disk usage is 100 when the setter was called with a value above 100, 0 when
\* it was called with a negative value and the value itself in between; for
\* an argument outside 0..100 it is not the argument modulo 256.
C11_UsageSaturates ==
    built \in {"gamdias", "hwcx"} =>
        \A k \in {"cpu", "gpu", "mem", "disk"} :
            LET b == packet[UsageOffset[built][k]]
                v == usage_in[k]
            IN /\ v > 100 => b = 100
               /\ v < 0 => b = 0
               /\ v \in 0..100 => b = v
               /\ v \notin 0..100 => b # v % 256

\* C11 witness: a GAMDIAS packet built after set_cpu_data was called with
\* usage 150 and set_memory_data with usage -10
C11_Witness ==
    /\ built = "gamdias"
    /\ usage_in.cpu = 150 /\ packet[6] = 100
    /\ usage_in.mem = -10 /\ packet[22] = 0

\* C12: the first get_usage call after the tracker is constructed returns 0.0.
C12_FirstCallZero ==
    calls = 1 => usage_out = ZeroUsage

\* C13: a get_usage call that reads the counters after a baseline was stored
\* returns 0.0 when the total counter did not advance since the previous
\* successful read, and otherwise 100 * (1 - idle_delta / total_delta)
\* saturated to 0..100; counters (100, 1000) then (150, 1200) give 75.0.
C13_UsageFromDeltas ==
    [][(stat'.ok /\ good.ok) =>
         LET idle_delta == stat'.idle - good.idle
             total_delta == stat'.total - good.total
             raw == 100 * (total_delta - idle_delta)
             u == usage_out'
         IN /\ u.den > 0
            /\ total_delta <= 0 => u = ZeroUsage
            /\ (total_delta > 0 /\ raw < 0) => u.num = 0
            /\ (total_delta > 0 /\ raw > 100 * total_delta) => u.num = 100 * u.den
            /\ (total_delta > 0 /\ raw >= 0 /\ raw <= 100 * total_delta) =>
                  u.num * total_delta = raw * u.den
            /\ (good.idle = 100 /\ good.total = 1000
                  /\ stat'.idle = 150 /\ stat'.total = 1200) => u.num = 75 * u.den
    ]_vars

\* C13 witness: the call that read (150, 1200) after (100, 1000) returned 75.0
C13_Witness ==
    /\ calls = CountCap
    /\ stat.ok /\ stat.idle = 150 /\ stat.total = 1200
    /\ usage_out.num = 75 * usage_out.den

\* C14: a get_usage call whose read fails returns 0.0 and leaves the stored
\* counters and the initialized flag as they were, so the stored counters are
\* at every point those of the last read that succeeded.
C14_FailedReadKeepsState ==
    [][/\ ~stat'.ok =>
            /\ usage_out' = ZeroUsage
            /\ _last_idle' = _last_idle
            /\ _last_total' = _last_total
            /\ _initialized' = _initialized
       /\ _initialized' = good'.ok
       /\ good'.ok => (_last_idle' = good'.idle /\ _last_total' = good'.total)
    ]_vars

\* C14 witness: a failed read after a successful one, the baseline still held
C14_Witness ==
    /\ calls >= 1 /\ ~stat.ok
    /\ _initialized /\ _last_idle = 150 /\ _last_total = 1200

\* C15: the stored idle counter and the stored total counter never decrease
\* from one get_usage call to the next.
C15_StoredCountersMonotonic ==
    [][_last_idle' >= _last_idle /\ _last_total' >= _last_total]_vars

\* the clock during a send_data call (what the clock contributes to a packet
\* is exercised by the builder calls of SpecPacket)
SendNow == CHOOSE now \in NowValues : now.hour = 9

\* the paths the last send_data call made a data write to
WrittenPaths == {p \in Paths : DataRes(wlog[p]) # 0}

\* the packet of that write: what the builder send_data called for the path
\* (lines 407-410) returns for the snapshot
Written(p) ==
    IF wlog[p][Len(wlog[p])].pkt[1] = "gamdias"
    THEN _build_gamdias_packet(sensor_data, SendNow)
    ELSE _build_hwcx_packet(sensor_data, SendNow)

\* the offsets of GPU temperature, usage, frequency, fan speed and power
GpuOffsets ==
    [gamdias |-> {3, 16, 17, 18, 9, 10, 11, 12},
     hwcx    |-> {3, 16, 17, 18, 31, 32, 35, 36}]

\* C16: an update cycle whose GPU reading is not valid still calls send_data,
\* which writes a packet to every device of the active set, and in each of
\* these packets the bytes of GPU temperature, usage, frequency, fan speed
\* and power are zero, whatever GPU values the snapshot held before.
C16_InvalidGpuSendsZeros ==
    (pc = "sleep" /\ cycle.count > 0 /\ ~cycle.gpu_valid) =>
        /\ cycle.transmits = 1 /\ op = "send_data"
        /\ WrittenPaths # {}
        /\ \A p \in WrittenPaths :
              \A i \in GpuOffsets[wlog[p][Len(wlog[p])].pkt[1]] : Written(p)[i] = 0

\* C16 witness: a cycle with an invalid GPU reading has transmitted to a
\* GAMDIAS and to a HWCX device, the snapshot having held the GPU values of
\* an earlier cycle
C16_Witness ==
    /\ pc = "sleep" /\ ~cycle.gpu_valid /\ cycle.gpu_before = 55
    /\ cycle.transmits = 1
    /\ \E p, q \in WrittenPaths :
          /\ wlog[p][Len(wlog[p])].pkt[1] = "gamdias"
          /\ wlog[q][Len(wlog[q])].pkt[1] = "hwcx"
          /\ Written(p)[3] = 0 /\ Written(q)[3] = 0

\* the device behind a node is in the supported table
SupportedNode(p) ==
    \E i \in 1..Len(SUPPORTED_DEVICES) : NodeId(p) = SUPPORTED_DEVICES[i]

\* C17: scan_devices returns only nodes whose (vendor, product) pair is in the
\* supported table, whichever nodes can be queried; only such nodes are in
\* the active set, hold an open descriptor or are written to; every data
\* packet written to the (0x1B80, 0xB538) device begins 0xB0 0x01 and every
\* data packet written to the other supported device begins 0x00 0x02.
C17_OnlySupportedAndFamilyLayout ==
    /\ \A unreadable \in SUBSET nodes :
          LET found == scan_devices(fdtab, nodes, unreadable)
          IN \A i \in 1..Len(found) :
                /\ SupportedNode(found[i].path)
                /\ <<found[i].vendor_id, found[i].product_id>> = NodeId(found[i].path)
    /\ \A p \in ActivePaths(devices) : SupportedNode(p)
    /\ \A f \in OpenFdSet(fdtab) : SupportedNode(fdtab[f].path)
    /\ \A p \in Paths : wlog[p] # <<>> => SupportedNode(p)
    /\ \A p \in WrittenPaths :
          /\ NodeId(p) = SUPPORTED_DEVICES[1] =>
                (Written(p)[0] = 176 /\ Written(p)[1] = 1)
          /\ NodeId(p) = SUPPORTED_DEVICES[2] =>
                (Written(p)[0] = 0 /\ Written(p)[1] = 2)

\* C17 witness: send_data has written to the GAMDIAS and to the HWCX device
\* while a device that is not in the table was attached
C17_Witness ==
    /\ op = "send_data"
    /\ \E p, q \in WrittenPaths, u \in nodes :
          /\ NodeId(p) = SUPPORTED_DEVICES[1] /\ Written(p)[0] = 176
          /\ NodeId(q) = SUPPORTED_DEVICES[2] /\ Written(q)[1] = 2
          /\ ~SupportedNode(u)

\* the 16-bit value of two bytes of the packet
Word(hi, lo) == packet[hi] * 256 + packet[lo]

\* C18: a packet of either family carries the CPU frequency of the snapshot
\* in bytes 14-15 and the GPU frequency in bytes 17-18, high byte first; a
\* Family A packet carries CPU temperature, CPU fan speed, GPU fan speed, GPU
\* power and CPU power low byte first at offsets 4-5, 7-8, 9-10, 11-12, 24-25.
\* The last conjunct runs the two builders on every frequency of 0..65535.
C18_FrequencyBigEndian ==
    /\ built \in {"gamdias", "hwcx"} =>
          /\ sensor_data.cpu_freq \in 0..65535
          /\ Word(14, 15) = sensor_data.cpu_freq
          /\ Word(17, 18) = sensor_data.gpu_freq
    /\ built = "gamdias" =>
          /\ Word(5, 4) = sensor_data.cpu_temp
          /\ Word(8, 7) = sensor_data.cpu_fan_rpm
          /\ Word(10, 9) = sensor_data.gpu_fan_rpm
          /\ Word(12, 11) = sensor_data.gpu_power
          /\ Word(25, 24) = sensor_data.cpu_power
    /\ (built = "none" /\ sensor_data = DefaultSensorData /\ usage_in = NoUsageIn) =>
          \A f \in 0..65535 :
              LET sd == set_gpu_data(set_cpu_data(sensor_data, 0, 0, f, 0, 0),
                                     0, 0, 65535 - f, 0, 0)
                  a == _build_gamdias_packet(sd, SendNow)
                  b == _build_hwcx_packet(sd, SendNow)
              IN /\ a[14] * 256 + a[15] = f /\ a[17] * 256 + a[18] = 65535 - f
                 /\ b[14] * 256 + b[15] = f /\ b[17] * 256 + b[18] = 65535 - f
                 /\ \A i \in {14, 15, 17, 18} : a[i] \in 0..255 /\ b[i] \in 0..255

\* C18 witness: a Family B packet built with cpu_freq = 3500 holds 0x0D 0xAC
\* in bytes 14-15, and its GPU frequency is another value
C18_Witness ==
    /\ built = "hwcx"
    /\ sensor_data.cpu_freq = 3500 /\ packet[14] = 13 /\ packet[15] = 172
    /\ sensor_data.gpu_freq = 65535

\* the offsets a family's layout assigns no field to
Unassigned ==
    [gamdias |-> {13} \cup (26..64),
     hwcx    |-> {7, 21, 22, 27, 28, 33, 34} \cup (37..40) \cup (50..64)]

\* C19: a packet a builder returns has 65 bytes, at offsets 0..64, each in
\* 0..255, and the bytes at the offsets its layout assigns no field to are
\* zero, whatever was built before it.
C19_LengthAndZeroFill ==
    built \in {"gamdias", "hwcx"} =>
        /\ DOMAIN packet = 0..64
        /\ Cardinality(DOMAIN packet) = 65
        /\ \A i \in DOMAIN packet : packet[i] \in 0..255
        /\ \A i \in Unassigned[built] : packet[i] = 0

\* C19 witness: a Family B packet built from a snapshot whose CPU fan speed
\* has a non-zero low byte and whose network fields are non-zero
C19_Witness ==
    /\ built = "hwcx"
    /\ sensor_data.cpu_fan_rpm = 1200
    /\ sensor_data.net_upload = 305419896
    /\ packet[41] = 18 /\ packet[44] = 120
    /\ packet[7] = 0 /\ packet[40] = 0 /\ packet[50] = 0

\* C20: in an open_devices call, a device that scan_devices identified is
\* either opened by the call on a new descriptor or reported as failed, also
\* when a device before it in the pass failed; a device that failed gets no
\* new entry in the active set; and the count returned is the number of
\* entries the call put into the active set.
C20_OpenFailureIsolated ==
    [][op' = "open_devices" =>
         LET added == {p \in Paths : devices'[p] # devices[p]}
         IN /\ ret'.count = Cardinality(added)
            /\ added \cup ret'.failed = ret'.found
            /\ added \cap ret'.failed = {}
            /\ \A p \in ret'.failed :
                  devices'[p] = devices[p] /\ device_info'[p] = device_info[p]
            /\ \A p \in added :
                  /\ fdtab'[devices'[p]] = [path |-> p, live |-> TRUE]
                  /\ fdtab[devices'[p]] = ClosedFd
            /\ \A p \in Paths \ added : devices'[p] = devices[p]
    ]_vars

\* C20 witness: the first device of the pass could not be opened and the
\* second was
C20_Witness ==
    /\ op = "open_devices" /\ ret.count = 1
    /\ ret.found = {1, 2} /\ ret.failed = {1}
    /\ devices[1] = NoFd /\ devices[2] # NoFd

\* the channels of the CPU chip the last get_cpu_data call could read
ReadableChannels ==
    IF src.reader = "cpu" /\ src.in.hwmon
    THEN {i \in 1..9 : src.in.chip[i].st = "ok"} ELSE {}

\* C21: a reader call returns a reading in which every metric whose own
\* source could be read holds the value of that source, whatever became of
\* the sources of the other metrics: in get_cpu_data the usage, the frequency
\* and the temperature; in the NVIDIA reader every field of the tool's answer
\* that holds a number; in the AMD reader temperature, usage, frequency, fan
\* speed and power; in the Intel reader frequency and temperature.
C21_MetricFailureIsolated ==
    /\ src.reader = "cpu" =>
          /\ reading.usage = src.in.usage
          /\ src.in.freq.st = "ok" => reading.frequency = src.in.freq.v
          /\ ReadableChannels # {} =>
                \E i \in ReadableChannels : reading.temperature = src.in.chip[i].v
    /\ (src.reader = "nvidia" /\ src.in.st = "ok") =>
          LET got == <<reading.temperature, reading.usage, reading.frequency,
                       reading.memory_usage, reading.memory_usage,
                       reading.fan_rpm, reading.power>>
              want == <<1000 * NvValue[1], NvValue[2], 1000 * NvValue[3],
                        (100 * NvValue[4]) \div NvValue[5],
                        (100 * NvValue[4]) \div NvValue[5],
                        30 * NvValue[6], 1000000 * NvValue[7]>>
          IN \A k \in 1..7 :
                (/\ src.in.f[k].st = "ok"
                 /\ k \in {4, 5} => (src.in.f[4].st = "ok" /\ src.in.f[5].st = "ok"))
                    => got[k] = want[k]
    /\ src.reader = "amd" =>
          /\ (src.in.temp1 = "ok" \/ src.in.temp2 = "ok") =>
                reading.temperature \in {AmdValue.temp1, AmdValue.temp2}
          /\ (src.in.busy = "ok" \/ src.in.busy2 = "ok" \/ src.in.activity = "ok") =>
                reading.usage \in {AmdValue.busy, AmdValue.busy2, AmdValue.activity}
          /\ (src.in.sclk = "ok" \/ src.in.freq1 = "ok") =>
                reading.frequency \in {1000 * AmdValue.sclk, AmdValue.freq1 \div 1000}
          /\ (src.in.fan1 = "ok" \/ src.in.fan2 = "ok") =>
                reading.fan_rpm \in {AmdValue.fan1, AmdValue.fan2}
          /\ (src.in.power_avg = "ok" \/ src.in.power_in = "ok") =>
                reading.power \in {AmdValue.power_avg, AmdValue.power_in}
    /\ src.reader = "intel" =>
          /\ src.in.gt_freq = "ok" => reading.frequency = 1000 * IntelValue.gt_freq
          /\ src.in.temp1 = "ok" => reading.temperature = IntelValue.temp1

\* C22: once a termination signal has reached the handler, no update cycle
\* starts any more, and an update cycle calls send_data at most once; so at
\* most the transmit of the cycle in progress follows the signal before stop()
\* closes the devices.
C22_NoCycleAfterSignal ==
    [][/\ (signalled /\ pc = "loop") => pc' # "cycle"
       /\ cycle'.transmits <= 1
       /\ (signalled /\ pc = "loop" /\ ~running) =>
             (pc' = "stop" \/ pc' = "loop")
    ]_vars

\* C23: run takes three CPU readings and discards them before the first
\* update cycle: no update cycle has started and nothing has been transmitted
\* while the warm-up is going on, the snapshot is still the default one when
\* it ends, and the CPU reading of every cycle that transmits comes from a
\* get_usage call after the three of the warm-up, never from the first one.
C23_WarmupBeforeFirstTransmit ==
    /\ WARMUP_SAMPLES = 3
    /\ pc = "warmup" =>
          /\ warm < WARMUP_SAMPLES /\ calls = warm
          /\ ~everCycle /\ ~everTransmit
          /\ sensor_data = DefaultSensorData
    /\ (everCycle \/ everTransmit \/ pc \in {"loop", "cycle", "sensors", "send"}) =>
          warm = WARMUP_SAMPLES
    /\ (pc = "loop" /\ ~everCycle) => sensor_data = DefaultSensorData
    /\ (pc = "send" \/ op = "send_data") =>
          /\ cycle.cpu_call > WARMUP_SAMPLES
          /\ cycle.cpu_call # 1

\* C23 witness: the first transmit, with the CPU reading of the fourth call
C23_Witness ==
    /\ op = "send_data" /\ cycle.transmits = 1
    /\ warm = WARMUP_SAMPLES
    /\ cycle.cpu_call = WARMUP_SAMPLES + 1
    /\ sensor_data.cpu_usage = 25

\* the DRM entries of the constructor's probe that decide the vendor: a card
\* with an AMD device that has a sensor chip, or with an Intel device
Deciding ==
    {i \in 1..Len(probe.cards) :
        /\ probe.cards[i].card /\ probe.cards[i].device
        /\ \/ probe.cards[i].vendor = "0x1002" /\ probe.cards[i].hwmon
           \/ probe.cards[i].vendor = "0x8086"}

\* the vendor is the one the probes of the constructor decide, and the last
\* get_gpu_data call used its reader
VendorAsProbed ==
    /\ probe.tool = "ok" => _gpu_vendor = "nvidia"
    /\ (probe.tool # "ok" /\ Deciding = {}) => _gpu_vendor = "none"
    /\ (probe.tool # "ok" /\ Deciding # {}) =>
          LET first == CHOOSE i \in Deciding : \A j \in Deciding : i <= j
          IN _gpu_vendor = IF probe.cards[first].vendor = "0x1002"
                           THEN "amd" ELSE "intel"
    /\ src.reader \in {"nvidia", "amd", "intel", "none"} => src.reader = _gpu_vendor
    /\ src.reader = "none" =>
          /\ ~reading.is_valid
          /\ reading.temperature = 0 /\ reading.usage = 0 /\ reading.frequency = 0
          /\ reading.memory_usage = 0 /\ reading.fan_rpm = 0 /\ reading.power = 0

\* C24: the vendor is decided by the probes of the constructor (NVIDIA when
\* the tool answers, whatever DRM entries exist; otherwise the first DRM entry
\* that is an AMD card with a sensor chip or an Intel card; otherwise none)
\* and no get_cpu_data or get_gpu_data call changes it, whatever the tool
\* would answer by then; with no vendor, get_gpu_data returns an invalid
\* reading of zeros.
C24_VendorDecidedOnce ==
    [][VendorAsProbed /\ VendorAsProbed' /\ _gpu_vendor' = _gpu_vendor]_vars

\* C24 witness: no vendor was found at construction (the only card was an AMD
\* card without a sensor chip), and a get_gpu_data call made when the tool
\* has become available returned the invalid reading
C24_Witness ==
    /\ _gpu_vendor = "none" /\ src.reader = "none"
    /\ probe.tool = "missing" /\ src.tool = "ok"
    /\ Len(probe.cards) = 1 /\ probe.cards[1].vendor = "0x1002"
    /\ reading = NoReading

\* the readable channels of the CPU chip whose label holds one of the words
PreferredChannels ==
    {i \in ReadableChannels :
        \E w \in CpuWords : Contains(ReadLabel(src.in.chip[i]), w)}

\* C25: the temperature get_cpu_data reports is that of the lowest-numbered
\* readable channel whose label contains "package", "tctl" or "tdie" in any
\* case, and with no such channel that of the lowest-numbered readable
\* channel, whatever the channels read.
C25_PreferredElseFirstChannel ==
    ReadableChannels # {} =>
        LET from == IF PreferredChannels # {} THEN PreferredChannels
                    ELSE ReadableChannels
            pick == CHOOSE i \in from : \A j \in from : i <= j
        IN reading.temperature = src.in.chip[pick].v

\* the last reader call obtained some measurement from a source
Obtained ==
    CASE src.reader = "cpu" ->
            src.in.usage > 0 \/ src.in.freq.st = "ok" \/ ReadableChannels # {}
      [] src.reader = "nvidia" ->
            src.in.st = "ok" /\ \E k \in 1..7 : src.in.f[k].st = "ok"
      [] src.reader \in {"amd", "intel"} ->
            \E k \in DOMAIN src.in : src.in[k] = "ok"
      [] OTHER -> FALSE

\* C26: a reading returned with valid = true holds at least one measurement
\* that was obtained from a source; a reading in which every metric was
\* reported as not applicable or could not be read is returned with
\* valid = false.
C26_ValidOnlyIfMeasured ==
    reading.is_valid => Obtained

\* the paths the process holds an open descriptor on
OpenPaths == {fdtab[f].path : f \in OpenFdSet(fdtab)}

\* the paths with stored device info
InfoPaths == {p \in Paths : device_info[p] # NoInfo}

\* C27: after any sequence of open_devices, send_data and close_devices the
\* paths with an entry in the active set, the paths with an open descriptor
\* and the paths with stored device info are the same, and every path marked
\* initialized is one of them.
C27_OpenInfoInitializedAligned ==
    /\ ActivePaths(devices) = InfoPaths
    /\ OpenPaths = InfoPaths
    /\ initialized_devices \subseteq InfoPaths

\* C28: in run, open_devices is called by an update cycle only when the
\* active set is empty at the check of the cycle, and while the active set
\* holds a device no step adds a path to it or opens a descriptor; so
\* a supported device that is attached while another one is in the active set
\* stays unopened.
C28_DiscoveryOnlyWhenEmpty ==
    [][/\ (pc = "cycle" /\ pc' # "cycle" /\ (op' = "open_devices" \/ cycle'.discovered)) =>
             /\ ActivePaths(devices) = {}
             /\ get_online_device_count(devices) = 0
       /\ ActivePaths(devices) # {} =>
             /\ ActivePaths(devices') \subseteq ActivePaths(devices)
             /\ \A q \in ActivePaths(devices') : devices'[q] = devices[q]
             /\ OpenFdSet(fdtab') \subseteq OpenFdSet(fdtab)
    ]_vars

\* C28 witness: a cycle has transmitted to one device without a discovery
\* pass while another supported device, removed from the active set by an
\* earlier disconnect, is attached again and not opened
C28_Witness ==
    /\ pc = "sleep" /\ cycle.transmits = 1 /\ ~cycle.discovered
    /\ everDisconnect
    /\ \E q \in ActivePaths(devices), u \in nodes :
          /\ SupportedNode(u) /\ devices[u] = NoFd
          /\ fdtab[devices[q]].live

\* C29: the send_data call that first reaches a descriptor opened on a GAMDIAS
\* device writes to it, in this order, the three init reports (65 bytes each:
\* the command, then zeros) and then the data packet, whatever the init
\* writes answered; the path is marked initialized when the call returns
\* unless the data write found the device gone. A later call writes the data
\* packet only.
C29_InitBeforeFirstData ==
    [][\A p \in Paths :
        (pc = "send" /\ pc' = "sleep" /\ devices[p] # NoFd
            /\ device_info[p].is_gamdias) =>
          LET w == wlog'[p]
              fd == devices[p]
          IN IF served[fd] = 0
             THEN /\ Len(w) = 4
                  /\ \A i \in 1..3 :
                        /\ w[i].pkt = <<"init", i>> /\ w[i].fd = fd
                        /\ DOMAIN InitReport(i) = 0..(REPORT_SIZE - 1)
                        /\ \A k \in DOMAIN InitReport(i) :
                              InitReport(i)[k] =
                                  IF k < Len(InitCommands[i])
                                  THEN InitCommands[i][k + 1] ELSE 0
                  /\ w[4].pkt = <<"gamdias", 0>> /\ w[4].fd = fd
                  /\ (p \in initialized_devices' \/ w[4].res = -ENODEV)
                  /\ (w[4].res = -ENODEV) => devices'[p] = NoFd
             ELSE /\ Len(w) = 1
                  /\ w[1].pkt = <<"gamdias", 0>> /\ w[1].fd = fd
    ]_vars

\* C29 witness: all three init writes to a GAMDIAS descriptor raised, the data
\* packet was written in full after them and the path is marked initialized
C29_Witness ==
    /\ op = "send_data" /\ pc = "sleep"
    /\ \E p \in initialized_devices :
          /\ Len(wlog[p]) = 4
          /\ \A i \in 1..3 : wlog[p][i].pkt[1] = "init" /\ wlog[p][i].res = -5
          /\ wlog[p][4].res = REPORT_SIZE
          /\ InitReport(2)[1] = 56 /\ InitReport(3)[4] = 1

\* a HidDevice on which the HWCX device is the first path of the active set
\* and the GAMDIAS device the second one
HwcxFirst ==
    [devices |-> [p \in Paths |-> IF p \in {1, 2} THEN p ELSE NoFd],
     device_info |->
        [p \in Paths |->
            IF p = 1 THEN [path |-> 1, vendor_id |-> 325, product_id |-> 4101,
                           is_gamdias |-> FALSE]
            ELSE IF p = 2 THEN [path |-> 2, vendor_id |-> 7040, product_id |-> 46392,
                                is_gamdias |-> TRUE]
            ELSE NoInfo],
     initialized_devices |-> {},
     fdtab |-> [f \in Fds |-> IF f \in {1, 2} THEN [path |-> f, live |-> TRUE]
                              ELSE ClosedFd]]

\* C30: in a send_data call every device of the active set has its packet
\* built and written, whatever error the packet or the write of another
\* device met: only a HWCX device whose packet cannot be built (display mode
\* outside a byte) gets no write; and a device leaves the active set only when
\* its own data write raised errno 19. The last conjunct runs send_data with
\* display mode 256 on a HidDevice whose first device is the HWCX one.
C30_ErrorsIsolatedPerDevice ==
    [][/\ op' = "send_data" =>
             \A p \in ActivePaths(devices) :
                /\ device_info[p] # NoInfo
                /\ (device_info[p].is_gamdias \/ sensor_data.display_mode \in 0..255) =>
                      /\ DataRes(wlog'[p]) # 0
                      /\ wlog'[p][Len(wlog'[p])].fd = devices[p]
                /\ (~device_info[p].is_gamdias /\ sensor_data.display_mode \notin 0..255) =>
                      /\ wlog'[p] = <<>>
                      /\ devices'[p] = devices[p] /\ device_info'[p] = device_info[p]
                /\ devices'[p] = NoFd => DataRes(wlog'[p]) = -ENODEV
                /\ devices'[p] # NoFd => devices'[p] = devices[p]
       /\ op = "init" =>
             LET r == send_data(HwcxFirst, set_display_mode(DefaultSensorData, 256),
                                [p \in {1, 2} |-> IF p = 2 THEN REPORT_SIZE ELSE -5],
                                [p \in {2} |-> {}])
             IN /\ r.wlog[1] = <<>>
                /\ Len(r.wlog[2]) = 4 /\ r.wlog[2][4].res = REPORT_SIZE
                /\ r.success
                /\ r.devices[1] = 1 /\ r.devices[2] = 2
    ]_vars

\* C30 witness: a send_data call with display mode 256 in which the write to
\* the GAMDIAS device raised EIO and no packet could be built for the HWCX
\* device; both are still in the active set
C30_Witness ==
    /\ op = "send_data" /\ sensor_data.display_mode = 256
    /\ \E p, q \in ActivePaths(devices) :
          /\ DataRes(wlog[p]) = -5
          /\ ~device_info[q].is_gamdias /\ wlog[q] = <<>>

====
